---- MODULE Spec2Model ----
(***************************************************************************)
(* Rate-limit policy resolution and command rewriting of OpenClaw          *)
(* Security (rate-limit.ts, sandbox/constants.ts) and the `security scan`  *)
(* command of the CLI (security-cli.ts); the scan-output parsers for nmap, *)
(* nuclei and ffuf with their report formatters; the scope check of        *)
(* disclaimer.ts, buildRateLimitedCommand of the security profile, and the *)
(* flag table of the Rate Limiting Guide.                                  *)
(*                                                                         *)
(* A JavaScript string is modelled as a sequence of one-character strings, *)
(* so that trimming, splitting, lower-casing, substring search and joining *)
(* are computed character by character as the code computes them.          *)
(***************************************************************************)
EXTENDS Integers, Sequences, FiniteSets, TLC

VARIABLES
    mode,       \* which entry point this run exercises
    pc,         \* position of the caller
    command,    \* injectRateLimits: the command argument
    config,     \* the RateLimitConfig or SecurityScanConfig argument (or absent)
    tool,       \* getRateLimitFlags: the tool argument
    flags,      \* value returned by getRateLimitFlags
    result,     \* outcome of injectRateLimits(command, config)
    again,      \* outcome of injectRateLimits(result, config)
    opts,       \* security scan: parsed command-line options
    target,     \* security scan: the <target> argument
    printed,    \* security scan: scanner commands written to the console
    auditLog,   \* security scan: entries written to the audit trail
    exitCode,   \* security scan: argument of process.exit, if it was called
    doc,        \* parsers: the report, stream or listing the input text was written from
    input,      \* parsers: the input text
    parsed,     \* parsers: outcome of the parser on the input text
    report,     \* formatters: outcome of the formatter on the parsed records
    reparsed,   \* parsers: outcome of a second call of the parser on the same text
    built,      \* buildRateLimitedCommand: its outcome on (tool, command, config)
    scopeConfig, \* isTargetInScope: the target section of the configuration, if any
    allowed     \* isTargetInScope: the value it returned, if it was called

vars ==
    <<mode, pc, command, config, tool, flags, result, again,
      opts, target, printed, auditLog, exitCode, doc, input, parsed, report,
      reparsed, built, scopeConfig, allowed>>

\* The variables of the parsers and formatters, and those of the rate-limit
\* policy, the rewriter and the scan command.
parserVars == <<doc, input, parsed, report, reparsed>>
helperVars == <<built, scopeConfig, allowed>>
policyVars ==
    <<command, config, tool, flags, result, again, opts, target, printed, auditLog, exitCode,
      built, scopeConfig, allowed>>

-----------------------------------------------------------------------------
(* Bounds of the model *)

MaxPieces == 3      \* a command is a concatenation of at most this many pieces
MaxRps == 17        \* global requests-per-second values range over 0..MaxRps
MaxTargetPieces == 2 \* a scan target is a concatenation of at most this many pieces
MaxHosts == 2       \* a scan report has at most this many host fragments
MaxPorts == 2       \* each host fragment has at most this many port fragments
MaxLines == 2       \* a finding stream has at most this many lines
MaxResults == 2     \* a results array has at most this many elements
MaxPatterns == 2    \* a scope list has at most this many patterns
MaxTokens == 3      \* a base command has at most this many space-separated tokens

-----------------------------------------------------------------------------
(* JavaScript values and strings *)

\* An optional value: <<>> is undefined, <<v>> is v.
None == <<>>
Some(v) == <<v>>

\* A JavaScript value as far as the policy code distinguishes them.
Undefined == [type |-> "undefined", str |-> <<>>]
Str(s) == [type |-> "string", str |-> s]
FunctionValue == [type |-> "function", str |-> <<>>]
ObjectValue == [type |-> "object", str |-> <<>>]

\* ToBoolean: undefined and "" are falsy, functions and objects truthy.
Truthy(v) ==
    CASE v.type = "undefined" -> FALSE
      [] v.type = "string" -> v.str # <<>>
      [] OTHER -> TRUE

\* The outcome of a call: a returned string, or a thrown TypeError.
Returned(s) == [threw |-> FALSE, value |-> s]
Threw == [threw |-> TRUE, value |-> <<>>]

\* Characters matched by \s and removed by trim().
IsWhitespace(c) == c \in {" ", "\t"}

UpperToLower ==
    [c \in {"A","B","C","D","E","F","G","H","I","J","K","L","M",
            "N","O","P","Q","R","S","T","U","V","W","X","Y","Z"} |->
        CASE c = "A" -> "a" [] c = "B" -> "b" [] c = "C" -> "c" [] c = "D" -> "d"
          [] c = "E" -> "e" [] c = "F" -> "f" [] c = "G" -> "g" [] c = "H" -> "h"
          [] c = "I" -> "i" [] c = "J" -> "j" [] c = "K" -> "k" [] c = "L" -> "l"
          [] c = "M" -> "m" [] c = "N" -> "n" [] c = "O" -> "o" [] c = "P" -> "p"
          [] c = "Q" -> "q" [] c = "R" -> "r" [] c = "S" -> "s" [] c = "T" -> "t"
          [] c = "U" -> "u" [] c = "V" -> "v" [] c = "W" -> "w" [] c = "X" -> "x"
          [] c = "Y" -> "y" [] c = "Z" -> "z"]

\* String.prototype.toLowerCase
toLowerCase(s) ==
    [i \in 1..Len(s) |-> IF s[i] \in DOMAIN UpperToLower THEN UpperToLower[s[i]] ELSE s[i]]

\* String.prototype.includes
includes(s, sub) ==
    \E i \in 0..(Len(s) - Len(sub)) : SubSeq(s, i + 1, i + Len(sub)) = sub

\* String.prototype.trim
RECURSIVE trimStart(_)
trimStart(s) ==
    IF s # <<>> /\ IsWhitespace(Head(s)) THEN trimStart(Tail(s)) ELSE s

RECURSIVE trimEnd(_)
trimEnd(s) ==
    IF s # <<>> /\ IsWhitespace(s[Len(s)]) THEN trimEnd(SubSeq(s, 1, Len(s) - 1)) ELSE s

trim(s) == trimEnd(trimStart(s))

\* s.split(/\s+/): the pieces between maximal runs of whitespace; a string
\* without whitespace (the empty string too) is one piece.
RECURSIVE splitWhitespace(_)
splitWhitespace(s) ==
    IF \A i \in 1..Len(s) : ~IsWhitespace(s[i]) THEN <<s>>
    ELSE LET i == CHOOSE k \in 1..Len(s) :
                    IsWhitespace(s[k]) /\ \A m \in 1..(k - 1) : ~IsWhitespace(s[m])
             rest == trimStart(SubSeq(s, i, Len(s)))
         IN  <<SubSeq(s, 1, i - 1)>> \o splitWhitespace(rest)

\* s.split(sep) for a one-character separator.
RECURSIVE split(_, _)
split(s, sep) ==
    IF \A i \in 1..Len(s) : s[i] # sep THEN <<s>>
    ELSE LET i == CHOOSE k \in 1..Len(s) :
                    s[k] = sep /\ \A m \in 1..(k - 1) : s[m] # sep
         IN  <<SubSeq(s, 1, i - 1)>> \o split(SubSeq(s, i + 1, Len(s)), sep)

\* Array.prototype.join
RECURSIVE join(_, _)
join(parts, sep) ==
    IF parts = <<>> THEN <<>>
    ELSE IF Len(parts) = 1 THEN parts[1]
    ELSE parts[1] \o sep \o join(Tail(parts), sep)

\* A splice that inserts one position too far.
spliceInsert_OffByOne(parts, index, item) ==
    LET at == IF index + 1 > Len(parts) THEN Len(parts) ELSE index + 1
    IN  SubSeq(parts, 1, at) \o <<item>> \o SubSeq(parts, at + 1, Len(parts))

\* parts.splice(index, 0, item) on a copy: item inserted before position
\* index (0-based), or appended when index is past the end.
spliceInsert(parts, index, item) ==
    LET at == IF index > Len(parts) THEN Len(parts) ELSE index
    IN  SubSeq(parts, 1, at) \o <<item>> \o SubSeq(parts, at + 1, Len(parts))

\* Number-to-string conversion of a non-negative integer (template literal).
Digit(d) ==
    CASE d = 0 -> "0" [] d = 1 -> "1" [] d = 2 -> "2" [] d = 3 -> "3" [] d = 4 -> "4"
      [] d = 5 -> "5" [] d = 6 -> "6" [] d = 7 -> "7" [] d = 8 -> "8" [] d = 9 -> "9"

RECURSIVE NumberToString(_)
NumberToString(n) ==
    IF n < 10 THEN <<Digit(n)>> ELSE NumberToString(n \div 10) \o <<Digit(n % 10)>>

\* `${1 / rps}`: the shortest decimal that reads back as the same double.
ReciprocalToString(rps) ==
    CASE rps = 0 -> <<"I", "n", "f", "i", "n", "i", "t", "y">>
        [] rps = 1 -> <<"1">>
        [] rps = 2 -> <<"0", ".", "5">>
        [] rps = 3 -> <<"0", ".", "3", "3", "3", "3", "3", "3", "3", "3", "3", "3", "3", "3", "3", "3", "3", "3">>
        [] rps = 4 -> <<"0", ".", "2", "5">>
        [] rps = 5 -> <<"0", ".", "2">>
        [] rps = 6 -> <<"0", ".", "1", "6", "6", "6", "6", "6", "6", "6", "6", "6", "6", "6", "6", "6", "6", "6", "6">>
        [] rps = 7 -> <<"0", ".", "1", "4", "2", "8", "5", "7", "1", "4", "2", "8", "5", "7", "1", "4", "2", "8", "5">>
        [] rps = 8 -> <<"0", ".", "1", "2", "5">>
        [] rps = 9 -> <<"0", ".", "1", "1", "1", "1", "1", "1", "1", "1", "1", "1", "1", "1", "1", "1", "1", "1">>
        [] rps = 10 -> <<"0", ".", "1">>
        [] rps = 11 -> <<"0", ".", "0", "9", "0", "9", "0", "9", "0", "9", "0", "9", "0", "9", "0", "9", "0", "9", "1">>
        [] rps = 12 -> <<"0", ".", "0", "8", "3", "3", "3", "3", "3", "3", "3", "3", "3", "3", "3", "3", "3", "3", "3">>
        [] rps = 13 -> <<"0", ".", "0", "7", "6", "9", "2", "3", "0", "7", "6", "9", "2", "3", "0", "7", "6", "9", "3">>
        [] rps = 14 -> <<"0", ".", "0", "7", "1", "4", "2", "8", "5", "7", "1", "4", "2", "8", "5", "7", "1", "4", "2">>
        [] rps = 15 -> <<"0", ".", "0", "6", "6", "6", "6", "6", "6", "6", "6", "6", "6", "6", "6", "6", "6", "6", "7">>
        [] rps = 16 -> <<"0", ".", "0", "6", "2", "5">>
        [] rps = 17 -> <<"0", ".", "0", "5", "8", "8", "2", "3", "5", "2", "9", "4", "1", "1", "7", "6", "4", "7", "0", "5">>
        [] rps = 18 -> <<"0", ".", "0", "5", "5", "5", "5", "5", "5", "5", "5", "5", "5", "5", "5", "5", "5", "5", "5">>
        [] rps = 19 -> <<"0", ".", "0", "5", "2", "6", "3", "1", "5", "7", "8", "9", "4", "7", "3", "6", "8", "4", "2">>
        [] rps = 20 -> <<"0", ".", "0", "5">>
        [] rps = 50 -> <<"0", ".", "0", "2">>
        [] rps = 100 -> <<"0", ".", "0", "1">>

Min(a, b) == IF a < b THEN a ELSE b

-----------------------------------------------------------------------------
(* Rate-limit policy: constants.ts and rate-limit.ts *)

Nmap == <<"n", "m", "a", "p">>
Masscan == <<"m", "a", "s", "s", "c", "a", "n">>
Ffuf == <<"f", "f", "u", "f">>
Nuclei == <<"n", "u", "c", "l", "e", "i">>
Hydra == <<"h", "y", "d", "r", "a">>
Httpx == <<"h", "t", "t", "p", "x">>
Sqlmap == <<"s", "q", "l", "m", "a", "p">>
Nikto == <<"n", "i", "k", "t", "o">>

\* Default rate limits for production target scanning.
SECURITY_RATE_LIMITS ==
    [t \in {Nmap, Masscan, Ffuf, Nuclei, Hydra} |->
        CASE t = Nmap -> <<"-", "-", "m", "a", "x", "-", "r", "a", "t", "e", " ", "1", "0", "0">>
          [] t = Masscan -> <<"-", "-", "r", "a", "t", "e", " ", "1", "0", "0">>
          [] t = Ffuf -> <<"-", "r", "a", "t", "e", " ", "1", "0">>
          [] t = Nuclei -> <<"-", "r", "l", " ", "1", "0">>
          [] t = Hydra -> <<"-", "t", " ", "4">>]

\* A table whose nmap entry is half the built-in default.
DEFAULT_RATE_LIMITS_NmapHalved ==
    [t \in {Nmap, Masscan, Ffuf, Nuclei, Hydra, Nikto, Sqlmap, Httpx} |->
        CASE t = Nmap -> 50
          [] t = Masscan -> 100
          [] t = Ffuf -> 10
          [] t = Nuclei -> 10
          [] t = Hydra -> 4
          [] t = Nikto -> 5
          [] t = Sqlmap -> 10
          [] t = Httpx -> 50]

\* Default rate limits for each tool when in production mode.
DEFAULT_RATE_LIMITS ==
    [t \in {Nmap, Masscan, Ffuf, Nuclei, Hydra, Nikto, Sqlmap, Httpx} |->
        CASE t = Nmap -> 100
          [] t = Masscan -> 100
          [] t = Ffuf -> 10
          [] t = Nuclei -> 10
          [] t = Hydra -> 4
          [] t = Nikto -> 5
          [] t = Sqlmap -> 10
          [] t = Httpx -> 50]

\* Property names every object literal inherits from Object.prototype, with
\* the kind of value found there; `key in obj` and `obj[key]` see them.
ObjectPrototype ==
    [k \in {<<"c", "o", "n", "s", "t", "r", "u", "c", "t", "o", "r">>, <<"_", "_", "p", "r", "o", "t", "o", "_", "_">>, <<"h", "a", "s", "O", "w", "n", "P", "r", "o", "p", "e", "r", "t", "y">>, <<"i", "s", "P", "r", "o", "t", "o", "t", "y", "p", "e", "O", "f">>,
            <<"p", "r", "o", "p", "e", "r", "t", "y", "I", "s", "E", "n", "u", "m", "e", "r", "a", "b", "l", "e">>, <<"t", "o", "L", "o", "c", "a", "l", "e", "S", "t", "r", "i", "n", "g">>, <<"t", "o", "S", "t", "r", "i", "n", "g">>, <<"v", "a", "l", "u", "e", "O", "f">>,
            <<"_", "_", "d", "e", "f", "i", "n", "e", "G", "e", "t", "t", "e", "r", "_", "_">>, <<"_", "_", "d", "e", "f", "i", "n", "e", "S", "e", "t", "t", "e", "r", "_", "_">>, <<"_", "_", "l", "o", "o", "k", "u", "p", "G", "e", "t", "t", "e", "r", "_", "_">>,
            <<"_", "_", "l", "o", "o", "k", "u", "p", "S", "e", "t", "t", "e", "r", "_", "_">>} |->
        IF k = <<"_", "_", "p", "r", "o", "t", "o", "_", "_">> THEN ObjectValue ELSE FunctionValue]

\* key in obj, for an object literal whose own properties are DOMAIN own.
HasProperty(own, key) == key \in DOMAIN own \/ key \in DOMAIN ObjectPrototype

\* obj[key], for an object literal with string-valued own properties.
GetProperty(own, key) ==
    IF key \in DOMAIN own THEN Str(own[key])
    ELSE IF key \in DOMAIN ObjectPrototype THEN ObjectPrototype[key]
    ELSE Undefined

\* The empty object literal, and the object literal {key: value}.
EmptyObject == [k \in {} |-> <<>>]
ObjectWith(key, value) == [k \in {key} |-> value]

\* A RateLimitConfig argument; NoConfig is an omitted argument.
NoConfig ==
    [present |-> FALSE, enabled |-> FALSE, maxRequestsPerSecond |-> None, toolLimits |-> None]
RateLimitConfig(enabled, maxRps, toolLimits) ==
    [present |-> TRUE, enabled |-> enabled, maxRequestsPerSecond |-> maxRps,
     toolLimits |-> toolLimits]

\* config.toolLimits?.[key]
ToolLimit(cfg, key) ==
    IF cfg.toolLimits = None THEN Undefined ELSE GetProperty(cfg.toolLimits[1], key)

\* A formatter that passes the value to hydra without the cap of 16.
formatRateLimitForTool_Uncapped(t, rps) ==
    CASE t = Nmap -> <<"-", "-", "m", "a", "x", "-", "r", "a", "t", "e", " ">> \o NumberToString(rps)
      [] t = Masscan -> <<"-", "-", "r", "a", "t", "e", " ">> \o NumberToString(rps)
      [] t = Ffuf -> <<"-", "r", "a", "t", "e", " ">> \o NumberToString(rps)
      [] t = Nuclei -> <<"-", "r", "l", " ">> \o NumberToString(rps)
      [] t = Hydra -> <<"-", "t", " ">> \o NumberToString(rps)
      [] t = Httpx -> <<"-", "r", "l", " ">> \o NumberToString(rps)
      [] t = Sqlmap -> <<"-", "-", "d", "e", "l", "a", "y", " ">> \o ReciprocalToString(rps)
      [] OTHER -> <<>>

\* Format rate limit flags for a tool from a requests-per-second value.
formatRateLimitForTool(t, rps) ==
    CASE t = Nmap -> <<"-", "-", "m", "a", "x", "-", "r", "a", "t", "e", " ">> \o NumberToString(rps)
      [] t = Masscan -> <<"-", "-", "r", "a", "t", "e", " ">> \o NumberToString(rps)
      [] t = Ffuf -> <<"-", "r", "a", "t", "e", " ">> \o NumberToString(rps)
      [] t = Nuclei -> <<"-", "r", "l", " ">> \o NumberToString(rps)
      [] t = Hydra -> <<"-", "t", " ">> \o NumberToString(Min(rps, 16))
      [] t = Httpx -> <<"-", "r", "l", " ">> \o NumberToString(rps)
      [] t = Sqlmap -> <<"-", "-", "d", "e", "l", "a", "y", " ">> \o ReciprocalToString(rps)
      [] OTHER -> <<>>

\* Get the rate limit flags for a specific tool (the returned JavaScript value).
getRateLimitFlags(t, cfg) ==
    IF ~(cfg.present /\ cfg.enabled) THEN Str(<<>>)
    ELSE LET toolLower == toLowerCase(t) IN
         IF Truthy(ToolLimit(cfg, toolLower)) THEN ToolLimit(cfg, toolLower)
         ELSE IF cfg.maxRequestsPerSecond # None
              THEN Str(formatRateLimitForTool(toolLower, cfg.maxRequestsPerSecond[1]))
         ELSE IF HasProperty(SECURITY_RATE_LIMITS, toolLower)
              THEN GetProperty(SECURITY_RATE_LIMITS, toolLower)
         ELSE Str(<<>>)

\* Substrings taken as a sign that the command is already rate limited.
rateLimitIndicators ==
    <<<<"-", "-", "m", "a", "x", "-", "r", "a", "t", "e">>, <<"-", "-", "r", "a", "t", "e">>, <<"-", "r", "a", "t", "e">>, <<"-", "r", "l">>, <<"-", "-", "d", "e", "l", "a", "y">>, <<"-", "t", " ">>>>

\* A tool-name extraction that forgets to strip the directory path.
ToolNameOf_WholeToken(cmd) == splitWhitespace(trim(cmd))[1]

\* The tool name of a command: the last "/"-segment of its first token.
ToolNameOf(cmd) ==
    LET parts == splitWhitespace(trim(cmd))
        segments == split(parts[1], "/")
    IN  segments[Len(segments)]

\* A rewriter that re-joins the tokens even when it has nothing to insert.
injectRateLimits_Rejoined(cmd, cfg) ==
    LET parts == splitWhitespace(trim(cmd))
        rejoined == join(parts, <<" ">>)
        fl == getRateLimitFlags(ToolNameOf(cmd), cfg)
        commandLower == toLowerCase(cmd)
    IN  IF ~(cfg.present /\ cfg.enabled) THEN Returned(rejoined)
        ELSE IF ~Truthy(fl) THEN Returned(rejoined)
        ELSE IF fl.type # "string" THEN Threw
        ELSE IF \E i \in 1..Len(rateLimitIndicators) :
                   includes(commandLower, rateLimitIndicators[i])
             THEN Returned(rejoined)
        ELSE Returned(join(spliceInsert(parts, 1, fl.str), <<" ">>))

\* Inject rate limit flags into a command.
injectRateLimits(cmd, cfg) ==
    IF ~(cfg.present /\ cfg.enabled) THEN Returned(cmd)
    ELSE LET parts == splitWhitespace(trim(cmd))
             fl == getRateLimitFlags(ToolNameOf(cmd), cfg)
             commandLower == toLowerCase(cmd)
         IN  IF Len(parts) = 0 THEN Returned(cmd)
             ELSE IF ~Truthy(fl) THEN Returned(cmd)
             ELSE IF fl.type # "string" THEN Threw   \* flags.toLowerCase is not a function
             ELSE IF \E i \in 1..Len(rateLimitIndicators) :
                        includes(commandLower, rateLimitIndicators[i])
                  THEN Returned(cmd)
             ELSE Returned(join(spliceInsert(parts, 1, fl.str), <<" ">>))

\* Parse rate limit configuration from a config object.
parseRateLimitConfig(rateLimit, maxRps) ==
    RateLimitConfig(IF rateLimit = None THEN FALSE ELSE rateLimit[1], maxRps, None)

\* Create a rate limit config for production scanning.
createProductionRateLimitConfig(maxRps) == RateLimitConfig(TRUE, maxRps, None)

\* Create a rate limit config for lab/CTF environments (no limiting).
createLabRateLimitConfig == RateLimitConfig(FALSE, None, None)

-----------------------------------------------------------------------------
(* Scope check and the `openclaw security scan` command *)

\* A scope check that consults the in-scope list before the out-of-scope list.
isTargetInScope_InScopeFirst(tgt, scope) ==
    IF scope = None THEN TRUE
    ELSE LET outOfScope == IF scope[1].outOfScope = None THEN <<>> ELSE scope[1].outOfScope[1]
             inScope == IF scope[1].scope = None THEN <<>> ELSE scope[1].scope[1]
         IN  IF \E i \in 1..Len(inScope) :
                    includes(tgt, inScope[i]) \/ includes(inScope[i], tgt)
             THEN TRUE
             ELSE IF \E i \in 1..Len(outOfScope) :
                    includes(tgt, outOfScope[i]) \/ includes(outOfScope[i], tgt)
             THEN FALSE
             ELSE Len(inScope) = 0

\* Validate that a target is within the allowed scope; scope is the
\* optional config.target with optional pattern lists.
isTargetInScope(tgt, scope) ==
    IF scope = None THEN TRUE
    ELSE LET outOfScope == IF scope[1].outOfScope = None THEN <<>> ELSE scope[1].outOfScope[1]
             inScope == IF scope[1].scope = None THEN <<>> ELSE scope[1].scope[1]
         IN  IF \E i \in 1..Len(outOfScope) :
                    includes(tgt, outOfScope[i]) \/ includes(outOfScope[i], tgt)
             THEN FALSE
             ELSE IF Len(inScope) = 0 THEN TRUE
             ELSE \E i \in 1..Len(inScope) :
                    includes(tgt, inScope[i]) \/ includes(inScope[i], tgt)

AlphaNumeric ==
    {"a","b","c","d","e","f","g","h","i","j","k","l","m",
     "n","o","p","q","r","s","t","u","v","w","x","y","z",
     "A","B","C","D","E","F","G","H","I","J","K","L","M",
     "N","O","P","Q","R","S","T","U","V","W","X","Y","Z",
     "0","1","2","3","4","5","6","7","8","9"}

\* target.replace(/[^a-zA-Z0-9]/g, "_")
replaceNonAlphaNumeric(s) ==
    [i \in 1..Len(s) |-> IF s[i] \in AlphaNumeric THEN s[i] ELSE "_"]

\* A phase choice that leaves --full out of account.
scanPhases_FullIgnored(o) ==
    (IF o.recon \/ (~o.web /\ ~o.vuln) THEN <<"recon">> ELSE <<>>)
    \o (IF o.web \/ (~o.recon /\ ~o.vuln) THEN <<"web">> ELSE <<>>)
    \o (IF o.vuln \/ (~o.recon /\ ~o.web) THEN <<"vuln">> ELSE <<>>)

\* Determine scan phases.
scanPhases(o) ==
    (IF o.recon \/ o.full \/ (~o.web /\ ~o.vuln) THEN <<"recon">> ELSE <<>>)
    \o (IF o.web \/ o.full \/ (~o.recon /\ ~o.vuln) THEN <<"web">> ELSE <<>>)
    \o (IF o.vuln \/ o.full \/ (~o.recon /\ ~o.web) THEN <<"vuln">> ELSE <<>>)

Contains(seq, x) == \E i \in 1..Len(seq) : seq[i] = x

\* The command templates of the scan action.
nmapTemplate(tgt) ==
    <<"n", "m", "a", "p", " ", "-", "s", "V", " ", "-", "s", "C", " ", "-", "o", "A", " ", "n", "m", "a", "p", "_">> \o replaceNonAlphaNumeric(tgt) \o <<" ">> \o tgt
subfinderTemplate(tgt) == <<"s", "u", "b", "f", "i", "n", "d", "e", "r", " ", "-", "d", " ">> \o tgt \o <<" ", "-", "o", " ", "s", "u", "b", "d", "o", "m", "a", "i", "n", "s", ".", "t", "x", "t">>
nucleiTemplate(tgt) ==
    <<"n", "u", "c", "l", "e", "i", " ", "-", "u", " ", "h", "t", "t", "p", "s", ":", "/", "/">> \o tgt \o <<" ", "-", "t", " ", "c", "v", "e", "s", "/", " ", "-", "o", " ", "n", "u", "c", "l", "e", "i", "_", "r", "e", "s", "u", "l", "t", "s", ".", "j", "s", "o", "n", " ", "-", "j", "s", "o", "n">>
ffufTemplate(tgt) ==
    <<"f", "f", "u", "f", " ", "-", "u", " ", "h", "t", "t", "p", "s", ":", "/", "/">> \o tgt
        \o <<"/", "F", "U", "Z", "Z", " ", "-", "w", " ", "/", "w", "o", "r", "d", "l", "i", "s", "t", "s", "/", "D", "i", "s", "c", "o", "v", "e", "r", "y", "/", "W", "e", "b", "-", "C", "o", "n", "t", "e", "n", "t", "/", "c", "o", "m", "m", "o", "n", ".", "t", "x", "t", " ", "-", "o", " ", "f", "f", "u", "f", "_", "r", "e", "s", "u", "l", "t", "s", ".", "j", "s", "o", "n", " ", "-", "o", "f", " ", "j", "s", "o", "n">>
testsslTemplate(tgt) == <<"t", "e", "s", "t", "s", "s", "l", ".", "s", "h", " ", "h", "t", "t", "p", "s", ":", "/", "/">> \o tgt
searchsploitTemplate(tgt) == <<"s", "e", "a", "r", "c", "h", "s", "p", "l", "o", "i", "t", " ">> \o tgt

\* const rateLimitConfig = config.rateLimit ? production : lab
scanRateLimitConfig(o) ==
    IF o.rateLimit THEN createProductionRateLimitConfig(o.maxRps)
    ELSE createLabRateLimitConfig

\* The scanner commands printed for the chosen phases, in order; each entry
\* names the tool whose command it is.
scanCommands(tgt, o) ==
    LET phases == scanPhases(o)
        cfg == scanRateLimitConfig(o)
    IN  (IF Contains(phases, "recon")
         THEN << [tool |-> Nmap, cmd |-> injectRateLimits(nmapTemplate(tgt), cfg).value],
                 [tool |-> <<"s", "u", "b", "f", "i", "n", "d", "e", "r">>, cmd |-> subfinderTemplate(tgt)] >>
         ELSE <<>>)
        \o (IF Contains(phases, "web")
            THEN << [tool |-> Nuclei, cmd |-> injectRateLimits(nucleiTemplate(tgt), cfg).value],
                    [tool |-> Ffuf, cmd |-> injectRateLimits(ffufTemplate(tgt), cfg).value] >>
            ELSE <<>>)
        \o (IF Contains(phases, "vuln")
            THEN << [tool |-> <<"t", "e", "s", "t", "s", "s", "l", ".", "s", "h">>, cmd |-> testsslTemplate(tgt)],
                    [tool |-> <<"s", "e", "a", "r", "c", "h", "s", "p", "l", "o", "i", "t">>, cmd |-> searchsploitTemplate(tgt)] >>
            ELSE <<>>)

-----------------------------------------------------------------------------
(* Inputs *)

\* Pieces a command line is concatenated from: whitespace, tool references
\* (known, mixed case, inherited property name), a path prefix and a path
\* separator, an ordinary flag and argument, and throttle indicators.
Pieces ==
    { <<" ">>, <<"\t">>, <<"n", "m", "a", "p">>, <<"H", "y", "d", "r", "a">>, <<"c", "o", "n", "s", "t", "r", "u", "c", "t", "o", "r">>, <<"/", "u", "s", "r", "/", "b", "i", "n", "/">>, <<"/">>,
      <<"-", "s", "V">>, <<"t">>, <<"-", "T">>, <<"-", "-", "r", "a", "t", "e">> }

RECURSIVE Concatenations(_, _)
Concatenations(pieces, n) ==
    IF n = 0 THEN {<<>>}
    ELSE LET shorter == Concatenations(pieces, n - 1)
         IN  shorter \cup {s \o p : s \in shorter, p \in pieces}

\* Command lines of the documentation, and one with irregular whitespace.
DocumentedCommands ==
    { <<"n", "m", "a", "p", " ", "-", "s", "V", " ", "t", "a", "r", "g", "e", "t", ".", "c", "o", "m">>, <<"n", "m", "a", "p", " ", "-", "s", "V", " ", "t">>, <<"/", "u", "s", "r", "/", "b", "i", "n", "/", "n", "m", "a", "p", " ", "-", "s", "V", " ", "t">>, <<" ", "n", "m", "a", "p", " ", " ", "-", "s", "V", "\t">> }

Commands == Concatenations(Pieces, MaxPieces) \cup DocumentedCommands

\* Per-tool override strings: with an indicator, without one, empty.
OverrideStrings == { <<"-", "-", "m", "a", "x", "-", "r", "a", "t", "e", " ", "5">>, <<"-", "T", "2">>, <<>> }

\* Global values: small ones around the hydra cap, and the entries of
\* DEFAULT_RATE_LIMITS.
RpsValues ==
    (0..MaxRps) \cup {DEFAULT_RATE_LIMITS[t] : t \in DOMAIN DEFAULT_RATE_LIMITS}

\* Policies handed to the rewriter.
RewriterConfigs ==
    { NoConfig,
      createLabRateLimitConfig,
      createProductionRateLimitConfig(None),
      createProductionRateLimitConfig(Some(50)),
      RateLimitConfig(TRUE, None, Some(EmptyObject)) }
    \cup { RateLimitConfig(TRUE, None, Some(ObjectWith(Nmap, s))) : s \in OverrideStrings }

\* Tool names handed to the resolver.
ToolNames ==
    { Nmap, Masscan, Ffuf, Nuclei, Hydra, Httpx, Sqlmap, Nikto,
      <<"N", "M", "A", "P">>, <<"H", "y", "d", "r", "a">>, <<"c", "u", "r", "l">>, <<"c", "o", "n", "s", "t", "r", "u", "c", "t", "o", "r">>, <<"_", "_", "p", "r", "o", "t", "o", "_", "_">>, <<"t", "o", "S", "t", "r", "i", "n", "g">>, <<>> }

\* Policies handed to the resolver.
ResolverConfigs ==
    { NoConfig }
    \cup { RateLimitConfig(e, r, l) :
            e \in BOOLEAN,
            r \in {None} \cup {Some(n) : n \in RpsValues},
            l \in {None, Some(EmptyObject)}
                    \cup {Some(ObjectWith(k, s)) : k \in {Nmap, Hydra}, s \in OverrideStrings} }

TargetPieces == { <<"a", ".", "i", "o">>, <<"1", "0">>, <<"-">>, <<"-", "r", "l">>, <<"T", " ">>, <<":">> }
Targets == Concatenations(TargetPieces, MaxTargetPieces) \ {<<>>}

ScanOptions ==
    [ disclaimer : BOOLEAN, rateLimit : BOOLEAN, maxRps : {None, Some(50)},
      recon : BOOLEAN, web : BOOLEAN, vuln : BOOLEAN, full : BOOLEAN ]

NotCalled == Returned(<<>>)
NoOptions ==
    [ disclaimer |-> FALSE, rateLimit |-> FALSE, maxRps |-> None,
      recon |-> FALSE, web |-> FALSE, vuln |-> FALSE, full |-> FALSE ]

-----------------------------------------------------------------------------
(* The command rewriter: a caller rewrites a command, then rewrites the result *)

InitRewrite ==
    /\ mode = "rewrite"
    /\ pc = "call"
    /\ command \in Commands
    /\ config \in RewriterConfigs
    /\ tool = <<>>
    /\ flags = Undefined
    /\ result = NotCalled
    /\ again = NotCalled
    /\ opts = NoOptions
    /\ target = <<>>
    /\ printed = <<>>
    /\ auditLog = <<>>
    /\ exitCode = None
    /\ doc = <<>>
    /\ input = <<>>
    /\ parsed = NotCalled
    /\ report = NotCalled
    /\ reparsed = NotCalled
    /\ built = NotCalled
    /\ scopeConfig = None
    /\ allowed = None

InjectRateLimits ==
    /\ mode = "rewrite"
    /\ pc = "call"
    /\ result' = injectRateLimits(command, config)
    /\ IF config.present /\ config.enabled
       THEN /\ tool' = ToolNameOf(command)
            /\ flags' = getRateLimitFlags(ToolNameOf(command), config)
       ELSE UNCHANGED <<tool, flags>>
    /\ pc' = "returned"
    /\ UNCHANGED parserVars
    /\ UNCHANGED helperVars
    /\ UNCHANGED <<mode, command, config, again, opts, target, printed, auditLog, exitCode>>

InjectRateLimitsAgain ==
    /\ mode = "rewrite"
    /\ pc = "returned"
    /\ ~result.threw
    /\ again' = injectRateLimits(result.value, config)
    /\ pc' = "reapplied"
    /\ UNCHANGED parserVars
    /\ UNCHANGED helperVars
    /\ UNCHANGED <<mode, command, config, tool, flags, result, opts, target, printed, auditLog, exitCode>>

NextRewrite == InjectRateLimits \/ InjectRateLimitsAgain

SpecRewrite == InitRewrite /\ [][NextRewrite]_vars

-----------------------------------------------------------------------------
(* The policy resolver *)

InitResolve ==
    /\ mode = "resolve"
    /\ pc = "call"
    /\ tool \in ToolNames
    /\ config \in ResolverConfigs
    /\ command = <<>>
    /\ flags = Undefined
    /\ result = NotCalled
    /\ again = NotCalled
    /\ opts = NoOptions
    /\ target = <<>>
    /\ printed = <<>>
    /\ auditLog = <<>>
    /\ exitCode = None
    /\ doc = <<>>
    /\ input = <<>>
    /\ parsed = NotCalled
    /\ report = NotCalled
    /\ reparsed = NotCalled
    /\ built = NotCalled
    /\ scopeConfig = None
    /\ allowed = None

GetRateLimitFlags ==
    /\ mode = "resolve"
    /\ pc = "call"
    /\ flags' = getRateLimitFlags(tool, config)
    /\ pc' = "returned"
    /\ UNCHANGED parserVars
    /\ UNCHANGED helperVars
    /\ UNCHANGED <<mode, command, config, tool, result, again, opts, target, printed, auditLog, exitCode>>

NextResolve == GetRateLimitFlags

SpecResolve == InitResolve /\ [][NextResolve]_vars

-----------------------------------------------------------------------------
(* openclaw security scan <target> *)

InitScan ==
    /\ mode = "scan"
    /\ pc = "start"
    /\ target \in Targets
    /\ opts \in ScanOptions
    /\ command = <<>>
    /\ config = NoConfig
    /\ tool = <<>>
    /\ flags = Undefined
    /\ result = NotCalled
    /\ again = NotCalled
    /\ printed = <<>>
    /\ auditLog = <<>>
    /\ exitCode = None
    /\ doc = <<>>
    /\ input = <<>>
    /\ parsed = NotCalled
    /\ report = NotCalled
    /\ reparsed = NotCalled
    /\ built = NotCalled
    /\ scopeConfig = None
    /\ allowed = None

\* --no-disclaimer: the banner is printed and the scan goes on.
SkipDisclaimer ==
    /\ mode = "scan"
    /\ pc = "start"
    /\ ~opts.disclaimer
    /\ pc' = "authorized"
    /\ UNCHANGED parserVars
    /\ UNCHANGED helperVars
    /\ UNCHANGED <<mode, command, config, tool, flags, result, again,
                   opts, target, printed, auditLog, exitCode>>

\* The user answers the confirmation prompt with yes.
ConfirmDisclaimer ==
    /\ mode = "scan"
    /\ pc = "start"
    /\ opts.disclaimer
    /\ pc' = "authorized"
    /\ UNCHANGED parserVars
    /\ UNCHANGED helperVars
    /\ UNCHANGED <<mode, command, config, tool, flags, result, again,
                   opts, target, printed, auditLog, exitCode>>

\* A refusal that is written to the audit trail all the same.
DeclineDisclaimer_Logged ==
    /\ mode = "scan"
    /\ pc = "start"
    /\ opts.disclaimer
    /\ exitCode' = Some(1)
    /\ auditLog' = Append(auditLog, [operation |-> "scan", target |-> target,
                                      tool |-> "openclaw-security"])
    /\ pc' = "exited"
    /\ UNCHANGED parserVars
    /\ UNCHANGED helperVars
    /\ UNCHANGED <<mode, command, config, tool, flags, result, again,
                   opts, target, printed>>

\* The user answers no, or cancels the prompt: process.exit(1).
DeclineDisclaimer ==
    /\ mode = "scan"
    /\ pc = "start"
    /\ opts.disclaimer
    /\ exitCode' = Some(1)
    /\ pc' = "exited"
    /\ UNCHANGED parserVars
    /\ UNCHANGED helperVars
    /\ UNCHANGED <<mode, command, config, tool, flags, result, again,
                   opts, target, printed, auditLog>>

\* The rest of the action: scope check, audit log entry, printed commands.
\* The scan's SecurityConfig carries no target scope.
RunScan ==
    /\ mode = "scan"
    /\ pc = "authorized"
    /\ IF ~isTargetInScope(target, None)
       THEN /\ exitCode' = Some(1)
            /\ pc' = "exited"
            /\ UNCHANGED <<printed, auditLog>>
       ELSE /\ auditLog' = Append(auditLog, [operation |-> "scan", target |-> target,
                                             tool |-> "openclaw-security"])
            /\ printed' = scanCommands(target, opts)
            /\ pc' = "done"
            /\ UNCHANGED exitCode
    /\ UNCHANGED parserVars
    /\ UNCHANGED helperVars
    /\ UNCHANGED <<mode, command, config, tool, flags, result, again, opts, target>>

NextScan == SkipDisclaimer \/ ConfirmDisclaimer \/ DeclineDisclaimer \/ RunScan

SpecScan == InitScan /\ [][NextScan]_vars

-----------------------------------------------------------------------------
(* Regular-expression matching on character sequences (scan-parser.ts) *)

\* s has lit at position i.
MatchAt(s, i, lit) ==
    /\ i >= 1
    /\ i + Len(lit) - 1 <= Len(s)
    /\ \A j \in 1..Len(lit) : s[i + j - 1] = lit[j]

Minimum(S) == CHOOSE x \in S : \A y \in S : x <= y

\* The first position at or after from where lit occurs in s, or 0.
indexOf(s, lit, from) ==
    LET at == {i \in from..(Len(s) - Len(lit) + 1) : MatchAt(s, i, lit)}
    IN  IF at = {} THEN 0 ELSE Minimum(at)

Quote == <<"\"">>

\* s.match(/prefix([^"]+)"/)?.[1]: the first place where prefix is followed
\* by one or more characters other than " and then by "; the capture.
matchQuoted(s, prefix) ==
    LET closing(p) == indexOf(s, Quote, p + Len(prefix))
        at == {p \in 1..Len(s) : MatchAt(s, p, prefix) /\ closing(p) > p + Len(prefix)}
    IN  IF at = {} THEN None
        ELSE LET p == Minimum(at)
             IN  Some(SubSeq(s, p + Len(prefix), closing(p) - 1))

\* A match that accepts any quoted value, not only the alternatives.
matchEnum_AnyValue(s, prefix, alts) == matchQuoted(s, prefix)

\* s.match(/prefix(a|b|...)"/)?.[1] for the alternatives alts.
matchEnum(s, prefix, alts) ==
    LET hit(p, a) == MatchAt(s, p, prefix) /\ MatchAt(s, p + Len(prefix), alts[a] \o Quote)
        at == {p \in 1..Len(s) : \E a \in 1..Len(alts) : hit(p, a)}
    IN  IF at = {} THEN None
        ELSE LET p == Minimum(at)
             IN  Some(alts[Minimum({a \in 1..Len(alts) : hit(p, a)})])

Digits == {"0", "1", "2", "3", "4", "5", "6", "7", "8", "9"}

DigitValue(c) ==
    CASE c = "0" -> 0 [] c = "1" -> 1 [] c = "2" -> 2 [] c = "3" -> 3 [] c = "4" -> 4
      [] c = "5" -> 5 [] c = "6" -> 6 [] c = "7" -> 7 [] c = "8" -> 8 [] c = "9" -> 9

\* parseInt(digits, 10) for a non-empty run of decimal digits.
RECURSIVE parseInt(_)
parseInt(digits) ==
    IF Len(digits) = 1 THEN DigitValue(digits[1])
    ELSE 10 * parseInt(SubSeq(digits, 1, Len(digits) - 1)) + DigitValue(digits[Len(digits)])

\* The first match of /<host[^>]*>[\s\S]*?<\/host>/ at or after from, as
\* <<first, last>> positions; <<>> when there is none.
matchHost(s, from) ==
    LET closeOf(i) ==
            LET gt == indexOf(s, <<">">>, i + 5)
            IN  IF gt = 0 THEN 0 ELSE indexOf(s, <<"<", "/", "h", "o", "s", "t", ">">>, gt + 1)
        at == {i \in from..Len(s) : MatchAt(s, i, <<"<", "h", "o", "s", "t">>) /\ closeOf(i) # 0}
    IN  IF at = {} THEN <<>>
        ELSE LET i == Minimum(at) IN <<i, closeOf(i) + 6>>

\* A matchAll that stops after the first match.
matchAllHosts_FirstOnly(s, from) ==
    LET m == matchHost(s, from)
    IN  IF m = <<>> THEN <<>> ELSE <<SubSeq(s, m[1], m[2])>>

\* xml.matchAll(/<host[^>]*>[\s\S]*?<\/host>/g): the matched texts in order.
RECURSIVE matchAllHosts(_, _)
matchAllHosts(s, from) ==
    LET m == matchHost(s, from)
    IN  IF m = <<>> THEN <<>>
        ELSE <<SubSeq(s, m[1], m[2])>> \o matchAllHosts(s, m[2] + 1)

\* The end of the run of digits that starts at k (k - 1 when there is none).
digitsEnd(s, k) ==
    LET stop == {e \in k..Len(s) : s[e] \notin Digits}
    IN  IF stop = {} THEN Len(s) ELSE Minimum(stop) - 1

\* A match of /<port protocol="(tcp|udp)" portid="(\d+)"[\s\S]*?<\/port>/
\* that starts at i: its captures and last position; <<>> when there is none.
matchPortAt(s, i) ==
    LET head == <<"<", "p", "o", "r", "t", " ", "p", "r", "o", "t", "o", "c", "o", "l", "=", "\"">>
        mid == <<"\"", " ", "p", "o", "r", "t", "i", "d", "=", "\"">>
        protoAt == i + Len(head)
        protocols == {a \in {<<"t", "c", "p">>, <<"u", "d", "p">>} : MatchAt(s, protoAt, a)}
        idAt == protoAt + 3 + Len(mid)
        idEnd == digitsEnd(s, idAt)
        close == indexOf(s, <<"<", "/", "p", "o", "r", "t", ">">>, idEnd + 2)
    IN  IF /\ MatchAt(s, i, head)
           /\ protocols # {}
           /\ MatchAt(s, protoAt + 3, mid)
           /\ idEnd >= idAt
           /\ MatchAt(s, idEnd + 1, Quote)
           /\ close # 0
        THEN << [ text |-> SubSeq(s, i, close + 6),
                  protocol |-> CHOOSE a \in protocols : TRUE,
                  portid |-> SubSeq(s, idAt, idEnd),
                  last |-> close + 6 ] >>
        ELSE <<>>

\* hostXml.matchAll(/<port .../g): the matches in order.
RECURSIVE matchAllPorts(_, _)
matchAllPorts(s, from) ==
    LET at == {i \in from..Len(s) : matchPortAt(s, i) # <<>>}
    IN  IF at = {} THEN <<>>
        ELSE LET m == matchPortAt(s, Minimum(at))[1]
             IN  <<m>> \o matchAllPorts(s, m.last + 1)

-----------------------------------------------------------------------------
(* parseNmapXml *)

\* value ?? fallback, for an optional captured string.
OrElse(opt, fallback) == IF opt = None THEN fallback ELSE opt[1]

\* The NmapPort built from one port match.
nmapPort(m) ==
    [ port |-> parseInt(m.portid),
      protocol |-> m.protocol,
      state |-> OrElse(matchEnum(m.text, <<"<", "s", "t", "a", "t", "e", " ", "s", "t", "a", "t", "e", "=", "\"">>,
                                 <<<<"o", "p", "e", "n">>, <<"c", "l", "o", "s", "e", "d">>, <<"f", "i", "l", "t", "e", "r", "e", "d">>>>), <<"f", "i", "l", "t", "e", "r", "e", "d">>),
      service |-> matchQuoted(m.text, <<"<", "s", "e", "r", "v", "i", "c", "e", " ", "n", "a", "m", "e", "=", "\"">>),
      product |-> matchQuoted(m.text, <<"p", "r", "o", "d", "u", "c", "t", "=", "\"">>),
      version |-> matchQuoted(m.text, <<"v", "e", "r", "s", "i", "o", "n", "=", "\"">>) ]

\* The NmapHost built from one host match that has an address.
nmapHost(hostXml) ==
    LET portMatches == matchAllPorts(hostXml, 1)
    IN  [ address |-> matchQuoted(hostXml, <<"<", "a", "d", "d", "r", "e", "s", "s", " ", "a", "d", "d", "r", "=", "\"">>)[1],
          hostname |-> matchQuoted(hostXml, <<"<", "h", "o", "s", "t", "n", "a", "m", "e", " ", "n", "a", "m", "e", "=", "\"">>),
          status |-> OrElse(matchEnum(hostXml, <<"<", "s", "t", "a", "t", "u", "s", " ", "s", "t", "a", "t", "e", "=", "\"">>, <<<<"u", "p">>, <<"d", "o", "w", "n">>>>),
                            <<"d", "o", "w", "n">>),
          ports |-> [k \in 1..Len(portMatches) |-> nmapPort(portMatches[k])],
          os |-> matchQuoted(hostXml, <<"<", "o", "s", "m", "a", "t", "c", "h", " ", "n", "a", "m", "e", "=", "\"">>) ]

RECURSIVE nmapHosts(_)
nmapHosts(hostMatches) ==
    IF hostMatches = <<>> THEN <<>>
    ELSE (IF matchQuoted(Head(hostMatches), <<"<", "a", "d", "d", "r", "e", "s", "s", " ", "a", "d", "d", "r", "=", "\"">>) = None
          THEN <<>>
          ELSE <<nmapHost(Head(hostMatches))>>)
         \o nmapHosts(Tail(hostMatches))

\* Parse nmap XML output to structured format.
parseNmapXml(xml) == Returned(nmapHosts(matchAllHosts(xml, 1)))

-----------------------------------------------------------------------------
(* Scan reports handed to parseNmapXml *)

\* The plain report: host i has address 10.0.0.i, host name h<i>, is up and
\* closed by </host>; its port j is tcp 79+j, open, closed by </port>.
\* A variation <<i, j, what>> changes one thing of host i (j = 0) or of its
\* port j.
HostVariations == {"noAddress", "unclosed", "noStatus", "badStatus", "down"}
PortVariations ==
    {"udp", "sctp", "zero", "big", "noState", "badState", "closedState", "unclosed"}

\* A report deviates from the plain one in at most one thing of one host and
\* at most one thing of one port.
AtMostOne(S) == {{}} \cup {{x} : x \in S}

Variations(n, m) ==
    { h \cup p :
        h \in AtMostOne({<<i, 0, w>> : i \in 1..n, w \in HostVariations}),
        p \in AtMostOne({<<i, j, w>> : i \in 1..n, j \in 1..m, w \in PortVariations}) }

ReportPort(i, j, V) ==
    [ protocol |-> IF <<i, j, "sctp">> \in V THEN <<"s", "c", "t", "p">>
                   ELSE IF <<i, j, "udp">> \in V THEN <<"u", "d", "p">> ELSE <<"t", "c", "p">>,
      portid |-> IF <<i, j, "zero">> \in V THEN <<"0">>
                 ELSE IF <<i, j, "big">> \in V THEN <<"9", "9", "9", "9", "9">>
                 ELSE NumberToString(79 + j),
      number |-> IF <<i, j, "zero">> \in V THEN 0
                 ELSE IF <<i, j, "big">> \in V THEN 99999
                 ELSE 79 + j,
      state |-> IF <<i, j, "noState">> \in V THEN None
                ELSE IF <<i, j, "badState">> \in V THEN Some(<<"o", "p", "e", "n", "|", "f", "i", "l", "t", "e", "r", "e", "d">>)
                ELSE IF <<i, j, "closedState">> \in V THEN Some(<<"c", "l", "o", "s", "e", "d">>)
                ELSE Some(<<"o", "p", "e", "n">>),
      closed |-> <<i, j, "unclosed">> \notin V ]

ReportHost(i, m, V) ==
    [ address |-> IF <<i, 0, "noAddress">> \in V THEN None
                  ELSE Some(<<"1", "0", ".", "0", ".", "0", ".">> \o NumberToString(i)),
      hostname |-> <<"h">> \o NumberToString(i),
      status |-> IF <<i, 0, "noStatus">> \in V THEN None
                 ELSE IF <<i, 0, "badStatus">> \in V THEN Some(<<"u", "n", "k", "n", "o", "w", "n">>)
                 ELSE IF <<i, 0, "down">> \in V THEN Some(<<"d", "o", "w", "n">>)
                 ELSE Some(<<"u", "p">>),
      closed |-> <<i, 0, "unclosed">> \notin V,
      ports |-> [j \in 1..m |-> ReportPort(i, j, V)] ]

Reports ==
    UNION { { [i \in 1..n |-> ReportHost(i, m, V)] : V \in Variations(n, m) } :
            n \in 0..MaxHosts, m \in 0..MaxPorts }

\* Concatenation of a sequence of strings.
RECURSIVE Concat(_)
Concat(strings) ==
    IF strings = <<>> THEN <<>> ELSE Head(strings) \o Concat(Tail(strings))

\* The text of a report, as nmap -oX writes it.
PortXml(p) ==
    <<"<", "p", "o", "r", "t", " ", "p", "r", "o", "t", "o", "c", "o", "l", "=", "\"">> \o p.protocol \o <<"\"", " ", "p", "o", "r", "t", "i", "d", "=", "\"">> \o p.portid \o <<"\"", ">">>
    \o (IF p.state = None THEN <<>> ELSE <<"<", "s", "t", "a", "t", "e", " ", "s", "t", "a", "t", "e", "=", "\"">> \o p.state[1] \o <<"\"", "/", ">">>)
    \o <<"<", "s", "e", "r", "v", "i", "c", "e", " ", "n", "a", "m", "e", "=", "\"", "h", "t", "t", "p", "\"", "/", ">">>
    \o (IF p.closed THEN <<"<", "/", "p", "o", "r", "t", ">">> ELSE <<>>)

HostXml(h) ==
    <<"<", "h", "o", "s", "t", ">">>
    \o (IF h.status = None THEN <<>> ELSE <<"<", "s", "t", "a", "t", "u", "s", " ", "s", "t", "a", "t", "e", "=", "\"">> \o h.status[1] \o <<"\"", "/", ">">>)
    \o (IF h.address = None THEN <<>> ELSE <<"<", "a", "d", "d", "r", "e", "s", "s", " ", "a", "d", "d", "r", "=", "\"">> \o h.address[1] \o <<"\"", "/", ">">>)
    \o <<"<", "h", "o", "s", "t", "n", "a", "m", "e", "s", ">", "<", "h", "o", "s", "t", "n", "a", "m", "e", " ", "n", "a", "m", "e", "=", "\"">> \o h.hostname \o <<"\"", "/", ">", "<", "/", "h", "o", "s", "t", "n", "a", "m", "e", "s", ">">>
    \o <<"<", "p", "o", "r", "t", "s", ">">> \o Concat([j \in 1..Len(h.ports) |-> PortXml(h.ports[j])]) \o <<"<", "/", "p", "o", "r", "t", "s", ">">>
    \o (IF h.closed THEN <<"<", "/", "h", "o", "s", "t", ">">> ELSE <<>>)

ReportXml(d) ==
    <<"<", "n", "m", "a", "p", "r", "u", "n", ">">> \o Concat([i \in 1..Len(d) |-> HostXml(d[i])]) \o <<"<", "/", "n", "m", "a", "p", "r", "u", "n", ">">>

-----------------------------------------------------------------------------
(* formatNmapSummary *)

\* [port.product, port.version].filter(Boolean).join(" ")
portVersion(p) == join(p.product \o p.version, <<" ">>)

portRow(p) ==
    <<"|", " ">> \o NumberToString(p.port) \o <<" ", "|", " ">> \o p.protocol \o <<" ", "|", " ">>
    \o OrElse(p.service, <<"-">>) \o <<" ", "|", " ">>
    \o (IF portVersion(p) = <<>> THEN <<"-">> ELSE portVersion(p)) \o <<" ", "|">>

hostLines(host) ==
    LET openPorts == SelectSeq(host.ports, LAMBDA p : p.state = <<"o", "p", "e", "n">>)
    IN  << IF host.hostname # None
           THEN <<"#", "#", " ">> \o host.address \o <<" ", "(">> \o host.hostname[1] \o <<")">>
           ELSE <<"#", "#", " ">> \o host.address,
           <<"S", "t", "a", "t", "u", "s", ":", " ">> \o host.status >>
        \o (IF host.os # None THEN << <<"O", "S", ":", " ">> \o host.os[1] >> ELSE <<>>)
        \o << <<>> >>
        \o (IF Len(openPorts) > 0
            THEN << <<"|", " ", "P", "o", "r", "t", " ", "|", " ", "P", "r", "o", "t", "o", "c", "o", "l", " ", "|", " ", "S", "e", "r", "v", "i", "c", "e", " ", "|", " ", "V", "e", "r", "s", "i", "o", "n", " ", "|">>,
                    <<"|", "-", "-", "-", "-", "-", "-", "|", "-", "-", "-", "-", "-", "-", "-", "-", "-", "-", "|", "-", "-", "-", "-", "-", "-", "-", "-", "-", "|", "-", "-", "-", "-", "-", "-", "-", "-", "-", "|">> >>
                 \o [k \in 1..Len(openPorts) |-> portRow(openPorts[k])]
            ELSE << <<"N", "o", " ", "o", "p", "e", "n", " ", "p", "o", "r", "t", "s", " ", "f", "o", "u", "n", "d", ".">> >>)
        \o << <<>> >>

\* Format nmap results as a summary table.
formatNmapSummary(hosts) ==
    Returned(join(<< <<"#", " ", "N", "m", "a", "p", " ", "S", "c", "a", "n", " ", "R", "e", "s", "u", "l", "t", "s">>, <<>> >>
                  \o Concat([i \in 1..Len(hosts) |-> hostLines(hosts[i])]),
                  <<"\n">>))

-----------------------------------------------------------------------------
(* Parsing and summarising an nmap report *)

\* The command rewriter and the scan command take no part in parsing.
policyIdle ==
    /\ command = <<>>
    /\ config = NoConfig
    /\ tool = <<>>
    /\ flags = Undefined
    /\ result = NotCalled
    /\ again = NotCalled
    /\ opts = NoOptions
    /\ target = <<>>
    /\ printed = <<>>
    /\ auditLog = <<>>
    /\ exitCode = None
    /\ built = NotCalled
    /\ scopeConfig = None
    /\ allowed = None

InitNmap ==
    /\ mode = "nmap"
    /\ pc = "start"
    /\ doc \in Reports
    /\ input = ReportXml(doc)
    /\ parsed = NotCalled
    /\ report = NotCalled
    /\ reparsed = NotCalled
    /\ policyIdle

ParseNmapXml ==
    /\ mode = "nmap"
    /\ pc = "start"
    /\ parsed' = parseNmapXml(input)
    /\ pc' = "parsed"
    /\ UNCHANGED <<mode, doc, input, report, reparsed>>
    /\ UNCHANGED policyVars

FormatNmapSummary ==
    /\ mode = "nmap"
    /\ pc = "parsed"
    /\ ~parsed.threw
    /\ report' = formatNmapSummary(parsed.value)
    /\ pc' = "done"
    /\ UNCHANGED <<mode, doc, input, parsed, reparsed>>
    /\ UNCHANGED policyVars

\* A caller parses the same text a second time.
ParseNmapXmlAgain ==
    /\ mode = "nmap"
    /\ pc = "parsed"
    /\ reparsed' = parseNmapXml(input)
    /\ pc' = "reparsed"
    /\ UNCHANGED <<mode, doc, input, parsed, report>>
    /\ UNCHANGED policyVars

NextNmap == ParseNmapXml \/ FormatNmapSummary

SpecNmap == InitNmap /\ [][NextNmap]_vars

-----------------------------------------------------------------------------
(* JSON.parse and the values it yields.  The JSON texts of the model use no
   escapes, signs, fractions or exponents. *)

Null == [type |-> "null"]
Bool(b) == [type |-> "boolean", bool |-> b]
Num(n) == [type |-> "number", num |-> n]
NaN == [type |-> "number", nan |-> TRUE]
Arr(items) == [type |-> "array", items |-> items]
Obj(props) == [type |-> "object", props |-> props]

\* A parse step: failure, or the value read and the position after it.
Fail == [ok |-> FALSE]
Ok(v, next) == [ok |-> TRUE, value |-> v, next |-> next]

\* The first position at or after i that holds no JSON whitespace.
skipWhitespace(s, i) ==
    LET stop == {k \in i..Len(s) : s[k] \notin {" ", "\t", "\n", "\r"}}
    IN  IF stop = {} THEN Len(s) + 1 ELSE Minimum(stop)

\* A string token that opens at i: characters up to the next quote, none of
\* them a control character.
parseString(s, i) ==
    LET close == indexOf(s, Quote, i + 1)
    IN  IF close = 0 THEN Fail
        ELSE IF \E k \in (i + 1)..(close - 1) : s[k] \in {"\\", "\t", "\n", "\r"} THEN Fail
        ELSE Ok(SubSeq(s, i + 1, close - 1), close + 1)

RECURSIVE parseValue(_, _)
RECURSIVE parseElements(_, _, _)
RECURSIVE parseMembers(_, _, _)

\* The JSON value that starts at or after i.
parseValue(s, from) ==
    LET i == skipWhitespace(s, from)
    IN  IF i > Len(s) THEN Fail
        ELSE IF MatchAt(s, i, <<"n", "u", "l", "l">>) THEN Ok(Null, i + 4)
        ELSE IF MatchAt(s, i, <<"t", "r", "u", "e">>) THEN Ok(Bool(TRUE), i + 4)
        ELSE IF MatchAt(s, i, <<"f", "a", "l", "s", "e">>) THEN Ok(Bool(FALSE), i + 5)
        ELSE IF s[i] = "0" THEN Ok(Num(0), i + 1)
        ELSE IF s[i] \in Digits
            THEN Ok(Num(parseInt(SubSeq(s, i, digitsEnd(s, i)))), digitsEnd(s, i) + 1)
        ELSE IF s[i] = "\"" THEN
            LET str == parseString(s, i)
            IN  IF str.ok THEN Ok(Str(str.value), str.next) ELSE Fail
        ELSE IF s[i] = "[" THEN
            LET j == skipWhitespace(s, i + 1)
            IN  IF j <= Len(s) /\ s[j] = "]" THEN Ok(Arr(<<>>), j + 1)
                ELSE parseElements(s, i + 1, <<>>)
        ELSE IF s[i] = "{" THEN
            LET j == skipWhitespace(s, i + 1)
            IN  IF j <= Len(s) /\ s[j] = "}" THEN Ok(Obj(<<>>), j + 1)
                ELSE parseMembers(s, i + 1, <<>>)
        ELSE Fail

\* The elements of an array from position i on, after the elements read.
parseElements(s, i, read) ==
    LET v == parseValue(s, i)
        j == skipWhitespace(s, v.next)
    IN  IF ~v.ok \/ j > Len(s) THEN Fail
        ELSE IF s[j] = "," THEN parseElements(s, j + 1, Append(read, v.value))
        ELSE IF s[j] = "]" THEN Ok(Arr(Append(read, v.value)), j + 1)
        ELSE Fail

\* The members of an object from position i on, after the members read; a
\* repeated key keeps its last value.
parseMembers(s, i, read) ==
    LET k == skipWhitespace(s, i)
        key == IF k <= Len(s) /\ s[k] = "\"" THEN parseString(s, k) ELSE Fail
        colon == skipWhitespace(s, key.next)
        v == parseValue(s, colon + 1)
        j == skipWhitespace(s, v.next)
        props == (key.value :> v.value) @@ read
    IN  IF ~key.ok \/ colon > Len(s) THEN Fail
        ELSE IF s[colon] # ":" THEN Fail
        ELSE IF ~v.ok \/ j > Len(s) THEN Fail
        ELSE IF s[j] = "," THEN parseMembers(s, j + 1, props)
        ELSE IF s[j] = "}" THEN Ok(Obj(props), j + 1)
        ELSE Fail

\* JSON.parse(text): the value, or a thrown SyntaxError.
JSONparse(text) ==
    LET v == parseValue(text, 1)
    IN  IF v.ok /\ skipWhitespace(text, v.next) > Len(text)
        THEN Returned(v.value) ELSE Threw

\* v is null or undefined: reading a property of v throws a TypeError, and
\* v ?? w is w.
Nullish(v) == v.type \in {"null", "undefined"}

\* v[key] for a value v that is not nullish: own properties, the length of
\* arrays and strings, and what every value inherits from Object.prototype.
Get(v, key) ==
    IF v.type = "object" /\ key \in DOMAIN v.props THEN v.props[key]
    ELSE IF v.type = "array" /\ key = <<"l", "e", "n", "g", "t", "h">> THEN Num(Len(v.items))
    ELSE IF v.type = "string" /\ key = <<"l", "e", "n", "g", "t", "h">> THEN Num(Len(v.str))
    ELSE IF key \in DOMAIN ObjectPrototype THEN ObjectPrototype[key]
    ELSE Undefined

\* a ?? b ?? ... : the first value that is not nullish, else the last.
RECURSIVE Coalesce(_)
Coalesce(values) ==
    IF Len(values) = 1 \/ ~Nullish(Head(values)) THEN Head(values)
    ELSE Coalesce(Tail(values))

\* ToBoolean
ToBoolean(v) ==
    CASE v.type \in {"undefined", "null"} -> FALSE
      [] v.type = "boolean" -> v.bool
      [] v.type = "number" -> "num" \in DOMAIN v /\ v.num # 0
      [] v.type = "string" -> v.str # <<>>
      [] OTHER -> TRUE

\* String(v) and `${v}`, for plain objects without a toString of their own.
RECURSIVE String(_)
String(v) ==
    CASE v.type = "string" -> v.str
      [] v.type = "number" -> IF "num" \in DOMAIN v THEN NumberToString(v.num) ELSE <<"N", "a", "N">>
      [] v.type = "boolean" -> IF v.bool THEN <<"t", "r", "u", "e">> ELSE <<"f", "a", "l", "s", "e">>
      [] v.type = "null" -> <<"n", "u", "l", "l">>
      [] v.type = "undefined" -> <<"u", "n", "d", "e", "f", "i", "n", "e", "d">>
      [] v.type = "array" ->
            join([k \in 1..Len(v.items) |->
                    IF Nullish(v.items[k]) THEN <<>> ELSE String(v.items[k])], <<",">>)
      [] v.type = "object" -> <<"[", "o", "b", "j", "e", "c", "t", " ", "O", "b", "j", "e", "c", "t", "]">>
      [] v.type = "function" -> <<"f", "u", "n", "c", "t", "i", "o", "n", " ", "O", "b", "j", "e", "c", "t", "(", ")", " ", "{", " ", "[", "n", "a", "t", "i", "v", "e", " ", "c", "o", "d", "e", "]", " ", "}">>

\* Number(v): strings are trimmed, empty is 0, a run of digits its value.
Number(v) ==
    LET text == IF v.type \in {"string", "array"} THEN trim(String(v)) ELSE <<>>
    IN  CASE v.type = "number" -> v
          [] v.type = "boolean" -> IF v.bool THEN Num(1) ELSE Num(0)
          [] v.type = "null" -> Num(0)
          [] v.type \in {"string", "array"} ->
                IF text = <<>> THEN Num(0)
                ELSE IF \A k \in 1..Len(text) : text[k] \in Digits THEN Num(parseInt(text))
                ELSE NaN
          [] OTHER -> NaN

-----------------------------------------------------------------------------
(* parseNucleiJson *)

\* The NucleiFinding built from a decoded line that is not null.
nucleiFinding(obj, now) ==
    LET info == Get(obj, <<"i", "n", "f", "o">>)
        ofInfo(key) == IF Nullish(info) THEN Undefined ELSE Get(info, key)
    IN  [ templateId |-> Coalesce(<<Get(obj, <<"t", "e", "m", "p", "l", "a", "t", "e", "-", "i", "d">>), Get(obj, <<"t", "e", "m", "p", "l", "a", "t", "e", "I", "d">>),
                                    Str(<<"u", "n", "k", "n", "o", "w", "n">>)>>),
          name |-> Coalesce(<<ofInfo(<<"n", "a", "m", "e">>), Get(obj, <<"n", "a", "m", "e">>), Str(<<"U", "n", "k", "n", "o", "w", "n">>)>>),
          severity |-> Coalesce(<<ofInfo(<<"s", "e", "v", "e", "r", "i", "t", "y">>), Get(obj, <<"s", "e", "v", "e", "r", "i", "t", "y">>), Str(<<"i", "n", "f", "o">>)>>),
          type |-> Coalesce(<<Get(obj, <<"t", "y", "p", "e">>), Str(<<"u", "n", "k", "n", "o", "w", "n">>)>>),
          host |-> Coalesce(<<Get(obj, <<"h", "o", "s", "t">>), Str(<<>>)>>),
          matched |-> Coalesce(<<Get(obj, <<"m", "a", "t", "c", "h", "e", "d">>), Get(obj, <<"m", "a", "t", "c", "h", "e", "d", "-", "a", "t">>), Str(<<>>)>>),
          extractedResults |-> Coalesce(<<Get(obj, <<"e", "x", "t", "r", "a", "c", "t", "e", "d", "-", "r", "e", "s", "u", "l", "t", "s">>),
                                          Get(obj, <<"e", "x", "t", "r", "a", "c", "t", "e", "d", "R", "e", "s", "u", "l", "t", "s">>)>>),
          timestamp |-> Coalesce(<<Get(obj, <<"t", "i", "m", "e", "s", "t", "a", "m", "p">>), Str(now)>>),
          curl |-> Coalesce(<<Get(obj, <<"c", "u", "r", "l", "-", "c", "o", "m", "m", "a", "n", "d">>), Get(obj, <<"c", "u", "r", "l">>)>>) ]

\* The findings one line adds: none for a blank line, for a line JSON.parse
\* rejects, and for a line that decodes to null (reading a property of null
\* throws inside the try block).
lineFindings(line, now) ==
    LET trimmed == trim(line)
        obj == JSONparse(trimmed)
    IN  IF trimmed = <<>> THEN <<>>
        ELSE IF obj.threw THEN <<>>
        ELSE IF Nullish(obj.value) THEN <<>>
        ELSE <<nucleiFinding(obj.value, now)>>

\* Parse nuclei JSON output (newline-delimited JSON); now is what
\* new Date().toISOString() gives during the call.
parseNucleiJson(jsonl, now) ==
    LET lines == split(jsonl, "\n")
    IN  Returned(Concat([k \in 1..Len(lines) |-> lineFindings(lines[k], now)]))

-----------------------------------------------------------------------------
(* formatNucleiReport *)

SeverityOrder == << <<"c", "r", "i", "t", "i", "c", "a", "l">>, <<"h", "i", "g", "h">>, <<"m", "e", "d", "i", "u", "m">>, <<"l", "o", "w">>, <<"i", "n", "f", "o">> >>
SeverityTitle == << <<"C", "r", "i", "t", "i", "c", "a", "l">>, <<"H", "i", "g", "h">>, <<"M", "e", "d", "i", "u", "m">>, <<"L", "o", "w">>, <<"I", "n", "f", "o">> >>
SeverityUpper == << <<"C", "R", "I", "T", "I", "C", "A", "L">>, <<"H", "I", "G", "H">>, <<"M", "E", "D", "I", "U", "M">>, <<"L", "O", "W">>, <<"I", "N", "F", "O">> >>

\* The backtick and the five circle emoji, each one character, written by its
\* code point.
Backtick == <<"U+0060">>
SeverityEmoji == << <<"U+1F534">>, <<"U+1F7E0">>, <<"U+1F7E1">>, <<"U+1F7E2">>, <<"U+1F535">> >>

\* The bucket (position in SeverityOrder) a finding is pushed to, or 0 when
\* the grouping throws: severity.toLowerCase is not a function for a severity
\* that is not a string, and bySeverity[sev] is an inherited member without
\* push for a severity named like a member of Object.prototype.
bucketOf(finding) ==
    IF finding.severity.type # "string" THEN 0
    ELSE LET sev == toLowerCase(finding.severity.str)
             own == {b \in 1..5 : SeverityOrder[b] = sev}
         IN  IF own # {} THEN CHOOSE b \in own : TRUE
             ELSE IF sev \in DOMAIN ObjectPrototype THEN 0
             ELSE 5

\* The "- Extracted:" line of a finding: none when extractedResults?.length
\* is falsy, the joined elements for an array, a TypeError (join is not a
\* function) for anything else.
extractedLines(f) ==
    LET e == f.extractedResults
    IN  IF Nullish(e) \/ ~ToBoolean(Get(e, <<"l", "e", "n", "g", "t", "h">>)) THEN Returned(<<>>)
        ELSE IF e.type # "array" THEN Threw
        ELSE Returned(<< <<"-", " ", "E", "x", "t", "r", "a", "c", "t", "e", "d", ":", " ">>
                         \o join([k \in 1..Len(e.items) |->
                                    IF Nullish(e.items[k]) THEN <<>> ELSE String(e.items[k])],
                                 <<",", " ">>) >>)

findingLines(f) ==
    << <<"#", "#", "#", " ">> \o String(f.name),
       <<"-", " ", "T", "e", "m", "p", "l", "a", "t", "e", ":", " ">> \o Backtick \o String(f.templateId) \o Backtick,
       <<"-", " ", "H", "o", "s", "t", ":", " ">> \o String(f.host),
       <<"-", " ", "M", "a", "t", "c", "h", "e", "d", ":", " ">> \o String(f.matched) >>
    \o extractedLines(f).value
    \o << <<>> >>

\* Format nuclei findings as a severity-grouped report.
formatNucleiReport(findings) ==
    LET bySeverity == [b \in 1..5 |-> SelectSeq(findings, LAMBDA f : bucketOf(f) = b)]
        count(b) == NumberToString(Len(bySeverity[b]))
        section(b) ==
            IF Len(bySeverity[b]) = 0 THEN <<>>
            ELSE << <<"#", "#", " ">> \o SeverityEmoji[b] \o <<" ">> \o SeverityUpper[b]
                    \o <<" ", "(">> \o count(b) \o <<")">>, <<>> >>
                 \o Concat([k \in 1..Len(bySeverity[b]) |-> findingLines(bySeverity[b][k])])
    IN  IF \E k \in 1..Len(findings) : bucketOf(findings[k]) = 0 THEN Threw
        ELSE IF \E k \in 1..Len(findings) : extractedLines(findings[k]).threw THEN Threw
        ELSE Returned(join(<< <<"#", " ", "N", "u", "c", "l", "e", "i", " ", "V", "u", "l", "n", "e", "r", "a", "b", "i", "l", "i", "t", "y", " ", "R", "e", "p", "o", "r", "t">>, <<>>, <<"#", "#", " ", "S", "u", "m", "m", "a", "r", "y">> >>
                           \o [b \in 1..5 |-> <<"-", " ">> \o SeverityTitle[b] \o <<":", " ">> \o count(b)]
                           \o << <<>> >>
                           \o Concat([b \in 1..5 |-> section(b)]),
                           <<"\n">>))

-----------------------------------------------------------------------------
(* Finding streams handed to parseNucleiJson *)

\* The lines a stream is made of; decodes says whether the trimmed line is a
\* JSON text.
Decodable(text) == [text |-> text, blank |-> FALSE, decodes |-> TRUE]
Malformed(text) == [text |-> text, blank |-> FALSE, decodes |-> FALSE]
Blank(text) == [text |-> text, blank |-> TRUE, decodes |-> FALSE]

NucleiLines ==
    { Decodable(<<"{", "\"", "t", "e", "m", "p", "l", "a", "t", "e", "-", "i", "d", "\"", ":", "\"", "c", "v", "e", "-", "1", "\"", ",", "\"", "i", "n", "f", "o", "\"", ":", "{", "\"", "n", "a", "m", "e", "\"", ":", "\"", "A", "\"", ",", "\"", "s", "e", "v", "e", "r", "i", "t", "y", "\"", ":", "\"", "h", "i", "g", "h", "\"", "}", ",", "\"", "t", "y", "p", "e", "\"", ":", "\"", "h", "t", "t", "p", "\"", ",", "\"", "h", "o", "s", "t", "\"", ":", "\"", "h", "\"", ",", "\"", "m", "a", "t", "c", "h", "e", "d", "-", "a", "t", "\"", ":", "\"", "h", "/", "a", "\"", ",", "\"", "t", "i", "m", "e", "s", "t", "a", "m", "p", "\"", ":", "\"", "t", "1", "\"", "}">>),
      Decodable(<<"{", "\"", "t", "e", "m", "p", "l", "a", "t", "e", "I", "d", "\"", ":", "\"", "t", "2", "\"", ",", "\"", "n", "a", "m", "e", "\"", ":", "\"", "B", "\"", ",", "\"", "s", "e", "v", "e", "r", "i", "t", "y", "\"", ":", "\"", "l", "o", "w", "\"", ",", "\"", "m", "a", "t", "c", "h", "e", "d", "\"", ":", "\"", "h", "/", "b", "\"", ",", "\"", "c", "u", "r", "l", "-", "c", "o", "m", "m", "a", "n", "d", "\"", ":", "\"", "c", "u", "r", "l", " ", "h", "\"", "}">>),
      Decodable(<<"{", "\"", "i", "n", "f", "o", "\"", ":", "{", "\"", "s", "e", "v", "e", "r", "i", "t", "y", "\"", ":", "\"", "H", "I", "G", "H", "\"", "}", "}">>),
      Decodable(<<"{", "\"", "s", "e", "v", "e", "r", "i", "t", "y", "\"", ":", "\"", "u", "n", "k", "n", "o", "w", "n", "\"", "}">>),
      Decodable(<<"{", "\"", "s", "e", "v", "e", "r", "i", "t", "y", "\"", ":", "5", "}">>),
      Decodable(<<"{", "\"", "s", "e", "v", "e", "r", "i", "t", "y", "\"", ":", "\"", "c", "o", "n", "s", "t", "r", "u", "c", "t", "o", "r", "\"", "}">>),
      Decodable(<<"{", "\"", "s", "e", "v", "e", "r", "i", "t", "y", "\"", ":", "\"", "c", "r", "i", "t", "i", "c", "a", "l", "\"", ",", "\"", "e", "x", "t", "r", "a", "c", "t", "e", "d", "-", "r", "e", "s", "u", "l", "t", "s", "\"", ":", "[", "\"", "a", "\"", ",", "\"", "b", "\"", "]", "}">>),
      Decodable(<<"{", "\"", "s", "e", "v", "e", "r", "i", "t", "y", "\"", ":", "\"", "m", "e", "d", "i", "u", "m", "\"", ",", "\"", "e", "x", "t", "r", "a", "c", "t", "e", "d", "-", "r", "e", "s", "u", "l", "t", "s", "\"", ":", "\"", "a", "b", "\"", "}">>),
      Decodable(<<"{", "\"", "i", "n", "f", "o", "\"", ":", "{", "\"", "s", "e", "v", "e", "r", "i", "t", "y", "\"", ":", "\"", "c", "r", "i", "t", "i", "c", "a", "l", "\"", "}", ",", "\"", "s", "e", "v", "e", "r", "i", "t", "y", "\"", ":", "\"", "h", "i", "g", "h", "\"", "}">>),
      Decodable(<<"{", "\"", "i", "n", "f", "o", "\"", ":", "n", "u", "l", "l", ",", "\"", "s", "e", "v", "e", "r", "i", "t", "y", "\"", ":", "\"", "i", "n", "f", "o", "\"", "}">>),
      Decodable(<<" ", "{", "\"", "s", "e", "v", "e", "r", "i", "t", "y", "\"", " ", ":", " ", "\"", "m", "e", "d", "i", "u", "m", "\"", "}", " ">>),
      Decodable(<<"{", "}">>),
      Decodable(<<"[", "]">>),
      Decodable(<<"5">>),
      Decodable(<<"n", "u", "l", "l">>),
      Malformed(<<"{", "\"", "s", "e", "v", "e", "r", "i", "t", "y", "\"", ":">>),
      Malformed(<<"n", "o", "t", " ", "j", "s", "o", "n">>),
      Malformed(<<"{", "\"", "s", "e", "v", "e", "r", "i", "t", "y", "\"", ":", "\"", "h", "i", "g", "h", "\"", "}", "{", "\"", "s", "e", "v", "e", "r", "i", "t", "y", "\"", ":", "\"", "l", "o", "w", "\"", "}">>),
      Blank(<<>>),
      Blank(<<" ", "\t">>) }

RECURSIVE SequencesUpTo(_, _)
SequencesUpTo(S, n) ==
    IF n = 0 THEN {<<>>}
    ELSE LET shorter == SequencesUpTo(S, n - 1)
         IN  shorter \cup {Append(q, x) : q \in shorter, x \in S}

\* A stream of one to MaxLines lines; its text has the lines separated by
\* newlines.
Streams == SequencesUpTo(NucleiLines, MaxLines) \ {<<>>}
StreamText(d) == join([k \in 1..Len(d) |-> d[k].text], <<"\n">>)

\* What new Date().toISOString() may give.
Clock == { <<"2", "0", "2", "4", "-", "0", "1", "-", "0", "1", "T", "0", "0", ":", "0", "0", ":", "0", "0", ".", "0", "0", "0", "Z">>, <<"2", "0", "2", "4", "-", "0", "1", "-", "0", "1", "T", "0", "0", ":", "0", "0", ":", "0", "0", ".", "0", "0", "1", "Z">> }

-----------------------------------------------------------------------------
(* Parsing and reporting a nuclei finding stream *)

InitNuclei ==
    /\ mode = "nuclei"
    /\ pc = "start"
    /\ doc \in Streams
    /\ input = StreamText(doc)
    /\ parsed = NotCalled
    /\ report = NotCalled
    /\ reparsed = NotCalled
    /\ policyIdle

ParseNucleiJson ==
    /\ mode = "nuclei"
    /\ pc = "start"
    /\ \E now \in Clock : parsed' = parseNucleiJson(input, now)
    /\ pc' = "parsed"
    /\ UNCHANGED <<mode, doc, input, report, reparsed>>
    /\ UNCHANGED policyVars

FormatNucleiReport ==
    /\ mode = "nuclei"
    /\ pc = "parsed"
    /\ ~parsed.threw
    /\ report' = formatNucleiReport(parsed.value)
    /\ pc' = "done"
    /\ UNCHANGED <<mode, doc, input, parsed, reparsed>>
    /\ UNCHANGED policyVars

\* A caller parses the same text a second time; the clock is read again.
ParseNucleiJsonAgain ==
    /\ mode = "nuclei"
    /\ pc = "parsed"
    /\ \E now \in Clock : reparsed' = parseNucleiJson(input, now)
    /\ pc' = "reparsed"
    /\ UNCHANGED <<mode, doc, input, parsed, report>>
    /\ UNCHANGED policyVars

NextNuclei == ParseNucleiJson \/ FormatNucleiReport

SpecNuclei == InitNuclei /\ [][NextNuclei]_vars

-----------------------------------------------------------------------------
(* parseFfufJson and formatFfufTable *)

\* The FfufResult built from one element of results that is not null.
ffufResult(r) ==
    [ url |-> String(Coalesce(<<Get(r, <<"u", "r", "l">>), Str(<<>>)>>)),
      status |-> Number(Coalesce(<<Get(r, <<"s", "t", "a", "t", "u", "s">>), Num(0)>>)),
      length |-> Number(Coalesce(<<Get(r, <<"l", "e", "n", "g", "t", "h">>), Num(0)>>)),
      words |-> Number(Coalesce(<<Get(r, <<"w", "o", "r", "d", "s">>), Num(0)>>)),
      lines |-> Number(Coalesce(<<Get(r, <<"l", "i", "n", "e", "s">>), Num(0)>>)),
      contentType |-> Get(r, <<"c", "o", "n", "t", "e", "n", "t", "-", "t", "y", "p", "e">>),
      redirectLocation |-> Get(r, <<"r", "e", "d", "i", "r", "e", "c", "t", "l", "o", "c", "a", "t", "i", "o", "n">>) ]

\* The try block of parseFfufJson: JSON.parse may throw a SyntaxError;
\* data.results throws for null, results.map for anything but an array, and
\* r.url for a null element.
ffufResults(json) ==
    LET data == JSONparse(json)
        results == Coalesce(<<Get(data.value, <<"r", "e", "s", "u", "l", "t", "s">>), Arr(<<>>)>>)
    IN  IF data.threw THEN Threw
        ELSE IF Nullish(data.value) THEN Threw
        ELSE IF results.type # "array" THEN Threw
        ELSE IF \E k \in 1..Len(results.items) : Nullish(results.items[k]) THEN Threw
        ELSE Returned([k \in 1..Len(results.items) |-> ffufResult(results.items[k])])

\* The try block without its catch.
parseFfufJson_Uncaught(json) == ffufResults(json)

\* Parse ffuf JSON output.
parseFfufJson(json) ==
    IF ffufResults(json).threw THEN Returned(<<>>) ELSE ffufResults(json)

\* Format ffuf results as a table.
formatFfufTable(results) ==
    LET row(r) == <<"|", " ">> \o r.url \o <<" ", "|", " ">> \o String(r.status) \o <<" ", "|", " ">>
                  \o String(r.length) \o <<" ", "|", " ">> \o String(r.words) \o <<" ", "|">>
    IN  Returned(join(
            << <<"#", " ", "F", "F", "U", "F", " ", "F", "u", "z", "z", "i", "n", "g", " ", "R", "e", "s", "u", "l", "t", "s">>, <<>> >>
            \o (IF Len(results) = 0 THEN << <<"N", "o", " ", "r", "e", "s", "u", "l", "t", "s", " ", "f", "o", "u", "n", "d", ".">> >>
                ELSE << <<"F", "o", "u", "n", "d", " ">> \o NumberToString(Len(results)) \o <<" ", "r", "e", "s", "u", "l", "t", "s", ".">>, <<>>,
                        <<"|", " ", "U", "R", "L", " ", "|", " ", "S", "t", "a", "t", "u", "s", " ", "|", " ", "S", "i", "z", "e", " ", "|", " ", "W", "o", "r", "d", "s", " ", "|">>,
                        <<"|", "-", "-", "-", "-", "-", "|", "-", "-", "-", "-", "-", "-", "-", "-", "|", "-", "-", "-", "-", "-", "-", "|", "-", "-", "-", "-", "-", "-", "-", "|">> >>
                     \o [k \in 1..Len(results) |-> row(results[k])]),
            <<"\n">>))

-----------------------------------------------------------------------------
(* Documents handed to parseFfufJson *)

\* The elements a results array is made of, with the values each is written
\* with (0 and the empty string where it has none).
Element(text, url, status, length, words, lines) ==
    [ text |-> text, isNull |-> FALSE, url |-> url, status |-> status,
      length |-> length, words |-> words, lines |-> lines ]

FfufElements ==
    { Element(<<"{", "\"", "u", "r", "l", "\"", ":", "\"", "h", "t", "t", "p", ":", "/", "/", "t", "/", "a", "\"", ",", "\"", "s", "t", "a", "t", "u", "s", "\"", ":", "2", "0", "0", ",", "\"", "l", "e", "n", "g", "t", "h", "\"", ":", "1", "0", ",", "\"", "w", "o", "r", "d", "s", "\"", ":", "2", ",", "\"", "l", "i", "n", "e", "s", "\"", ":", "1", "}">>,
              <<"h", "t", "t", "p", ":", "/", "/", "t", "/", "a">>, 200, 10, 2, 1),
      Element(<<"{", "\"", "u", "r", "l", "\"", ":", "\"", "h", "t", "t", "p", ":", "/", "/", "t", "/", "b", "\"", ",", "\"", "s", "t", "a", "t", "u", "s", "\"", ":", "4", "0", "4", "}">>, <<"h", "t", "t", "p", ":", "/", "/", "t", "/", "b">>, 404, 0, 0, 0),
      Element(<<"{", "\"", "s", "t", "a", "t", "u", "s", "\"", ":", "3", "0", "1", ",", "\"", "l", "e", "n", "g", "t", "h", "\"", ":", "7", ",", "\"", "w", "o", "r", "d", "s", "\"", ":", "3", ",", "\"", "l", "i", "n", "e", "s", "\"", ":", "2", ",", "\"", "r", "e", "d", "i", "r", "e", "c", "t", "l", "o", "c", "a", "t", "i", "o", "n", "\"", ":", "\"", "/", "d", "\"", ",", "\"", "c", "o", "n", "t", "e", "n", "t", "-", "t", "y", "p", "e", "\"", ":", "\"", "t", "e", "x", "t", "/", "h", "t", "m", "l", "\"", "}">>,
              <<>>, 301, 7, 3, 2),
      Element(<<"{", "}">>, <<>>, 0, 0, 0, 0),
      Element(<<"5">>, <<>>, 0, 0, 0, 0),
      [Element(<<"n", "u", "l", "l">>, <<>>, 0, 0, 0, 0) EXCEPT !.isNull = TRUE] }

Listing(elements) ==
    [ kind |-> "results", elements |-> elements,
      text |-> <<"{", "\"", "r", "e", "s", "u", "l", "t", "s", "\"", ":", "[">> \o join([k \in 1..Len(elements) |-> elements[k].text], <<",">>)
               \o <<"]", "}">> ]
Other(kind, text) == [kind |-> kind, elements |-> <<>>, text |-> text]

Documents ==
    { Listing(elements) : elements \in SequencesUpTo(FfufElements, MaxResults) }
    \cup { Other("undecodable", <<>>), Other("undecodable", <<"n", "o", "t", " ", "j", "s", "o", "n">>),
           Other("undecodable", <<"{", "\"", "r", "e", "s", "u", "l", "t", "s", "\"", ":", "[">>),
           Other("undecodable", <<"{", "\"", "r", "e", "s", "u", "l", "t", "s", "\"", ":", "[", "{", "\"", "u", "r", "l", "\"", ":", "\"", "a", "\"", "}", "]", "}", "x">>),
           Other("null", <<"n", "u", "l", "l">>), Other("null", <<" ", "n", "u", "l", "l", " ">>),
           Other("noResults", <<"{", "}">>), Other("noResults", <<"{", "\"", "o", "t", "h", "e", "r", "\"", ":", "1", "}">>),
           Other("noResults", <<"[", "]">>), Other("noResults", <<"5">>),
           Other("notArray", <<"{", "\"", "r", "e", "s", "u", "l", "t", "s", "\"", ":", "5", "}">>), Other("notArray", <<"{", "\"", "r", "e", "s", "u", "l", "t", "s", "\"", ":", "\"", "a", "b", "\"", "}">>),
           Other("notArray", <<"{", "\"", "r", "e", "s", "u", "l", "t", "s", "\"", ":", "{", "}", "}">>) }

-----------------------------------------------------------------------------
(* Parsing and tabulating an ffuf document *)

InitFfuf ==
    /\ mode = "ffuf"
    /\ pc = "start"
    /\ doc \in Documents
    /\ input = doc.text
    /\ parsed = NotCalled
    /\ report = NotCalled
    /\ reparsed = NotCalled
    /\ policyIdle

ParseFfufJson ==
    /\ mode = "ffuf"
    /\ pc = "start"
    /\ parsed' = parseFfufJson(input)
    /\ pc' = "parsed"
    /\ UNCHANGED <<mode, doc, input, report, reparsed>>
    /\ UNCHANGED policyVars

FormatFfufTable ==
    /\ mode = "ffuf"
    /\ pc = "parsed"
    /\ ~parsed.threw
    /\ report' = formatFfufTable(parsed.value)
    /\ pc' = "done"
    /\ UNCHANGED <<mode, doc, input, parsed, reparsed>>
    /\ UNCHANGED policyVars

\* A caller parses the same text a second time.
ParseFfufJsonAgain ==
    /\ mode = "ffuf"
    /\ pc = "parsed"
    /\ reparsed' = parseFfufJson(input)
    /\ pc' = "reparsed"
    /\ UNCHANGED <<mode, doc, input, parsed, report>>
    /\ UNCHANGED policyVars

NextFfuf == ParseFfufJson \/ FormatFfufTable

SpecFfuf == InitFfuf /\ [][NextFfuf]_vars

-----------------------------------------------------------------------------
(* The three parsers, each followed by its formatter *)

InitParsers == InitNmap \/ InitNuclei \/ InitFfuf

\* Callers of the three parsers; some parse their text a second time.
NextParsers ==
    \/ NextNmap \/ NextNuclei \/ NextFfuf
    \/ ParseNmapXmlAgain \/ ParseNucleiJsonAgain \/ ParseFfufJsonAgain

SpecParsers == InitParsers /\ [][NextParsers]_vars

-----------------------------------------------------------------------------
(* The Rate Limiting Guide *)

\* Tool-Specific Limits: the "Flag Used" column of the guide's table.
GuideToolLimits ==
    [t \in {Nmap, Masscan, Nuclei, Ffuf, Httpx, Hydra, Nikto} |->
        CASE t = Nmap -> <<"-", "-", "m", "a", "x", "-", "r", "a", "t", "e", " ", "1", "0", "0">>
          [] t = Masscan -> <<"-", "-", "r", "a", "t", "e", " ", "1", "0", "0">>
          [] t = Nuclei -> <<"-", "r", "l", " ", "1", "0">>
          [] t = Ffuf -> <<"-", "r", "a", "t", "e", " ", "1", "0">>
          [] t = Httpx -> <<"-", "r", "l", " ", "2", "0">>
          [] t = Hydra -> <<"-", "t", " ", "4">>
          [] t = Nikto -> <<"-", "m", "a", "x", "t", "i", "m", "e", " ", "3", "6", "0", "0">>]

\* injectRateLimits: the call of the guide's API reference and the value the
\* guide says it returns.
GuideCommand == <<"n", "m", "a", "p", " ", "-", "s", "V", " ", "t", "a", "r", "g", "e", "t", ".", "c", "o", "m">>
GuideRewritten == <<"n", "m", "a", "p", " ", "-", "s", "V", " ", "-", "-", "m", "a", "x", "-", "r", "a", "t", "e", " ", "1", "0", "0", " ", "t", "a", "r", "g", "e", "t", ".", "c", "o", "m">>

-----------------------------------------------------------------------------
(* The scope check on its own *)

\* Patterns of a scope list and targets checked against them: a domain, a
\* subdomain of it, a host below the subdomain, an unrelated domain.
ScopePatterns == { <<"a", ".", "i", "o">>, <<"d", "e", "v", ".", "a", ".", "i", "o">>, <<"b", ".", "i", "o">> }
ScopeTargets == { <<"a", ".", "i", "o">>, <<"d", "e", "v", ".", "a", ".", "i", "o">>, <<"x", ".", "d", "e", "v", ".", "a", ".", "i", "o">>, <<"b", ".", "i", "o">>, <<"c", ".", "i", "o">> }

\* config.target: absent, or a record whose scope and outOfScope lists are
\* each absent or a list of at most MaxPatterns patterns.
PatternLists == {None} \cup {Some(l) : l \in SequencesUpTo(ScopePatterns, MaxPatterns)}
ScopeConfigs ==
    {None} \cup {Some([scope |-> s, outOfScope |-> o]) : s \in PatternLists, o \in PatternLists}

InitScope ==
    /\ mode = "scope"
    /\ pc = "call"
    /\ target \in ScopeTargets
    /\ scopeConfig \in ScopeConfigs
    /\ allowed = None
    /\ command = <<>>
    /\ config = NoConfig
    /\ tool = <<>>
    /\ flags = Undefined
    /\ result = NotCalled
    /\ again = NotCalled
    /\ opts = NoOptions
    /\ printed = <<>>
    /\ auditLog = <<>>
    /\ exitCode = None
    /\ built = NotCalled
    /\ doc = <<>>
    /\ input = <<>>
    /\ parsed = NotCalled
    /\ report = NotCalled
    /\ reparsed = NotCalled

IsTargetInScope ==
    /\ mode = "scope"
    /\ pc = "call"
    /\ allowed' = Some(isTargetInScope(target, scopeConfig))
    /\ pc' = "returned"
    /\ UNCHANGED parserVars
    /\ UNCHANGED <<mode, command, config, tool, flags, result, again, opts, target,
                   printed, auditLog, exitCode, built, scopeConfig>>

NextScope == IsTargetInScope

SpecScope == InitScope /\ [][NextScope]_vars

-----------------------------------------------------------------------------
(* security-profile: buildRateLimitedCommand *)

\* Get rate limit flags for a specific tool: SECURITY_RATE_LIMITS[tool] ?? "".
getSecurityRateLimitFlags(t) ==
    LET v == GetProperty(SECURITY_RATE_LIMITS, t)
    IN  IF Nullish(v) THEN Str(<<>>) ELSE v

\* String.prototype.endsWith
endsWith(s, suffix) ==
    Len(suffix) <= Len(s) /\ SubSeq(s, Len(s) - Len(suffix) + 1, Len(s)) = suffix

\* A search that finds the last token naming the tool.
findToolIndex_Last(parts, t) ==
    LET hits == {k \in 1..Len(parts) : parts[k] = t \/ endsWith(parts[k], <<"/">> \o t)}
    IN  IF hits = {} THEN -1 ELSE (CHOOSE k \in hits : \A m \in hits : m <= k) - 1

\* parts.findIndex((p) => p === tool || p.endsWith(`/${tool}`)), 0-based.
findToolIndex(parts, t) ==
    LET hits == {k \in 1..Len(parts) : parts[k] = t \/ endsWith(parts[k], <<"/">> \o t)}
    IN  IF hits = {} THEN -1 ELSE (CHOOSE k \in hits : \A m \in hits : k <= m) - 1

\* A SecurityScanConfig argument; NoScanConfig is an omitted argument.
NoScanConfig == [present |-> FALSE, rateLimit |-> None, maxRequestsPerSecond |-> None]
SecurityScanConfig(rateLimit, maxRps) ==
    [present |-> TRUE, rateLimit |-> rateLimit, maxRequestsPerSecond |-> maxRps]

\* Build a rate-limited command for security tools.
buildRateLimitedCommand(t, baseCommand, cfg) ==
    IF ~(cfg.present /\ cfg.rateLimit = Some(TRUE)) THEN Returned(baseCommand)
    ELSE LET rateLimitFlags == getSecurityRateLimitFlags(t)
             parts == split(baseCommand, " ")
             toolIndex == findToolIndex(parts, t)
         IN  IF ~Truthy(rateLimitFlags) THEN Returned(baseCommand)
             ELSE IF toolIndex >= 0
                  THEN Returned(join(spliceInsert(parts, toolIndex + 1, String(rateLimitFlags)),
                                     <<" ">>))
             ELSE Returned(baseCommand \o <<" ">> \o String(rateLimitFlags))

\* Tools handed to the builder: the five with a built-in flag string, one
\* without, and a name every object literal inherits.
BuildTools == { Nmap, Masscan, Ffuf, Nuclei, Hydra, <<"c", "u", "r", "l">>, <<"c", "o", "n", "s", "t", "r", "u", "c", "t", "o", "r">> }

\* Tokens of a base command for a tool: the tool, its path-qualified form,
\* a longer name ending in the tool's, an ordinary flag and argument, a
\* throttle indicator, and the empty token that two adjacent spaces give.
BuildTokens(t) == { t, <<"/", "u", "s", "r", "/", "b", "i", "n", "/">> \o t, <<"x">> \o t, <<"-", "s", "V">>, <<"t">>, <<"-", "-", "r", "a", "t", "e">>, <<>> }

\* Base commands: at most MaxTokens tokens joined by single spaces.
BuildCommands(t) ==
    { join(ts, <<" ">>) : ts \in SequencesUpTo(BuildTokens(t), MaxTokens) }

ScanConfigs ==
    { NoScanConfig, SecurityScanConfig(None, None), SecurityScanConfig(Some(FALSE), None),
      SecurityScanConfig(Some(TRUE), None), SecurityScanConfig(Some(TRUE), Some(50)) }

InitBuild ==
    /\ mode = "build"
    /\ pc = "call"
    /\ tool \in BuildTools
    /\ command \in BuildCommands(tool)
    /\ config \in ScanConfigs
    /\ built = NotCalled
    /\ result = NotCalled
    /\ flags = Undefined
    /\ again = NotCalled
    /\ opts = NoOptions
    /\ target = <<>>
    /\ printed = <<>>
    /\ auditLog = <<>>
    /\ exitCode = None
    /\ scopeConfig = None
    /\ allowed = None
    /\ doc = <<>>
    /\ input = <<>>
    /\ parsed = NotCalled
    /\ report = NotCalled
    /\ reparsed = NotCalled

BuildRateLimitedCommand ==
    /\ mode = "build"
    /\ pc = "call"
    /\ built' = buildRateLimitedCommand(tool, command, config)
    /\ pc' = "built"
    /\ UNCHANGED parserVars
    /\ UNCHANGED <<mode, command, config, tool, flags, result, again, opts, target,
                   printed, auditLog, exitCode, scopeConfig, allowed>>

\* The same base command and configuration handed to the other rewriter:
\* injectRateLimits(command, parseRateLimitConfig(config)).
InjectRateLimitsInstead ==
    /\ mode = "build"
    /\ pc = "built"
    /\ result' = injectRateLimits(command,
                    parseRateLimitConfig(config.rateLimit, config.maxRequestsPerSecond))
    /\ pc' = "both"
    /\ UNCHANGED parserVars
    /\ UNCHANGED <<mode, command, config, tool, flags, again, opts, target,
                   printed, auditLog, exitCode, built, scopeConfig, allowed>>

NextBuild == BuildRateLimitedCommand \/ InjectRateLimitsInstead

SpecBuild == InitBuild /\ [][NextBuild]_vars

-----------------------------------------------------------------------------
(* Vocabulary of the properties, stated apart from the code's own helpers *)

\* The policy is enabled.
Enabled == config.present /\ config.enabled

\* The recognized throttle indicators.
ThrottleIndicators ==
    { <<"-", "-", "m", "a", "x", "-", "r", "a", "t", "e">>, <<"-", "-", "r", "a", "t", "e">>, <<"-", "r", "a", "t", "e">>, <<"-", "r", "l">>, <<"-", "-", "d", "e", "l", "a", "y">>, <<"-", "t", " ">> }

\* s contains sub at some position, compared without regard to letter case.
ContainsIgnoringCase(s, sub) ==
    \E i \in 1..Len(s) :
        /\ i + Len(sub) - 1 <= Len(s)
        /\ \A j \in 1..Len(sub) : toLowerCase(<<s[i + j - 1]>>) = toLowerCase(<<sub[j]>>)

HasThrottleIndicator(s) == \E ind \in ThrottleIndicators : ContainsIgnoringCase(s, ind)

\* The whitespace-separated tokens of s: its maximal runs of non-whitespace
\* characters, from left to right.
TokenStarts(s) ==
    {i \in 1..Len(s) : ~IsWhitespace(s[i]) /\ (i = 1 \/ IsWhitespace(s[i - 1]))}
TokenEnd(s, i) ==
    CHOOSE j \in i..Len(s) :
        /\ \A k \in i..j : ~IsWhitespace(s[k])
        /\ (j = Len(s) \/ IsWhitespace(s[j + 1]))
RECURSIVE TokensFrom(_, _)
TokensFrom(s, starts) ==
    IF starts = {} THEN <<>>
    ELSE LET i == CHOOSE k \in starts : \A m \in starts : k <= m
         IN  <<SubSeq(s, i, TokenEnd(s, i))>> \o TokensFrom(s, starts \ {i})
Tokens(s) == TokensFrom(s, TokenStarts(s))

\* The tokens written one after the other with a single space between them.
RECURSIVE SpaceSeparated(_)
SpaceSeparated(toks) ==
    IF toks = <<>> THEN <<>>
    ELSE IF Len(toks) = 1 THEN toks[1]
    ELSE toks[1] \o <<" ">> \o SpaceSeparated(Tail(toks))

\* The first token of s, or the empty string when s has none.
FirstToken(s) == IF Tokens(s) = <<>> THEN <<>> ELSE Tokens(s)[1]

\* What follows the last "/" of s (all of s when it has none).
LastSegment(s) ==
    LET slashes == {i \in 1..Len(s) : s[i] = "/"}
        last == IF slashes = {} THEN 0 ELSE CHOOSE i \in slashes : \A k \in slashes : k <= i
    IN  SubSeq(s, last + 1, Len(s))

\* The tools with a built-in default or a template.
KnownTools == {Nmap, Masscan, Ffuf, Nuclei, Hydra, Httpx, Sqlmap, Nikto}

-----------------------------------------------------------------------------
(* Properties *)

\* C1: rewriting is idempotent: rewriting the rewritten command with the same
\* enabled policy gives the rewritten command again.
C1_RewriteIdempotent ==
    (mode = "rewrite" /\ pc = "reapplied" /\ Enabled) => again = result

\* C2: a command that contains a throttle indicator (case-insensitively,
\* anywhere) is returned exactly unchanged, whatever tool it invokes.
C2_IndicatorLeavesCommandUnchanged ==
    (mode = "rewrite" /\ pc # "call" /\ HasThrottleIndicator(command))
        => result = Returned(command)

\* C3: with a disabled or absent policy the rewriter returns the command
\* character for character.
C3_DisabledIsIdentity ==
    (mode = "rewrite" /\ pc # "call" /\ ~Enabled) => result = Returned(command)

\* A disabled policy was applied to a command with leading, repeated and
\* trailing whitespace.
C3_Witness ==
    /\ mode = "rewrite" /\ pc = "returned"
    /\ config = createLabRateLimitConfig
    /\ command = <<" ", "n", "m", "a", "p", " ", " ", "-", "s", "V", "\t">>
    /\ result = Returned(command)

C5_OverrideReturnedVerbatim ==
    (/\ mode = "resolve" /\ pc = "returned" /\ Enabled
     /\ config.toolLimits # None
     /\ toLowerCase(tool) \in DOMAIN config.toolLimits[1])
        => flags = Str(config.toolLimits[1][toLowerCase(tool)])

\* The templates the claim lists, filled with n.
C6_Template(t, n) ==
    CASE t = Nmap -> <<"-", "-", "m", "a", "x", "-", "r", "a", "t", "e", " ">> \o NumberToString(n)
      [] t = Masscan -> <<"-", "-", "r", "a", "t", "e", " ">> \o NumberToString(n)
      [] t = Ffuf -> <<"-", "r", "a", "t", "e", " ">> \o NumberToString(n)
      [] t = Nuclei -> <<"-", "r", "l", " ">> \o NumberToString(n)
      [] t = Httpx -> <<"-", "r", "l", " ">> \o NumberToString(n)

\* C6: with an enabled policy without override for the tool and a global value
\* N, the listed tools resolve to their template filled with N, and a tool
\* without template resolves to the empty string.
C6_GlobalValueFillsTemplate ==
    (/\ mode = "resolve" /\ pc = "returned" /\ Enabled
     /\ config.maxRequestsPerSecond # None
     /\ (config.toolLimits = None \/ toLowerCase(tool) \notin DOMAIN config.toolLimits[1]))
        => /\ toLowerCase(tool) \in {Nmap, Masscan, Ffuf, Nuclei, Httpx}
                => flags = Str(C6_Template(toLowerCase(tool), config.maxRequestsPerSecond[1]))
           /\ toLowerCase(tool) \notin {Nmap, Masscan, Ffuf, Nuclei, Httpx, Hydra, Sqlmap}
                => flags = Str(<<>>)

\* The built-in defaults the claim lists.
C7_Default(t) ==
    CASE t = Nmap -> <<"-", "-", "m", "a", "x", "-", "r", "a", "t", "e", " ", "1", "0", "0">>
      [] t = Masscan -> <<"-", "-", "r", "a", "t", "e", " ", "1", "0", "0">>
      [] t = Ffuf -> <<"-", "r", "a", "t", "e", " ", "1", "0">>
      [] t = Nuclei -> <<"-", "r", "l", " ", "1", "0">>
      [] t = Hydra -> <<"-", "t", " ", "4">>
      [] OTHER -> <<>>

\* C7: with an enabled policy without override and without global value the
\* five default tools resolve to their built-in default and every other tool
\* name to the empty string; a disabled policy resolves to the empty string.
C7_BuiltInDefaultOrEmpty ==
    (mode = "resolve" /\ pc = "returned")
        => /\ ~Enabled => flags = Str(<<>>)
           /\ (/\ Enabled
               /\ config.maxRequestsPerSecond = None
               /\ (config.toolLimits = None
                    \/ toLowerCase(tool) \notin DOMAIN config.toolLimits[1]))
                => flags = Str(C7_Default(toLowerCase(tool)))

\* C8: the policy is looked up under the last "/"-segment of the first token,
\* so a path-qualified tool gets the flags of the bare tool name, and a
\* rewritten command keeps its first token as written.
C8_PathQualifiedToolLookup ==
    (mode = "rewrite" /\ pc # "call" /\ Enabled)
        => /\ tool = LastSegment(FirstToken(command))
           /\ flags = getRateLimitFlags(LastSegment(FirstToken(command)), config)
           /\ (~result.threw /\ result.value # command)
                => FirstToken(result.value) = FirstToken(command)

\* The path-qualified example was rewritten with nmap's flags, path kept.
C8_Witness ==
    /\ mode = "rewrite" /\ pc = "returned"
    /\ config = createProductionRateLimitConfig(None)
    /\ command = <<"/", "u", "s", "r", "/", "b", "i", "n", "/", "n", "m", "a", "p", " ", "-", "s", "V", " ", "t">>
    /\ tool = Nmap
    /\ result = Returned(<<"/", "u", "s", "r", "/", "b", "i", "n", "/", "n", "m", "a", "p", " ", "-", "-", "m", "a", "x", "-", "r", "a", "t", "e", " ", "1", "0", "0", " ", "-", "s", "V", " ", "t">>)

\* C9: for an unknown tool, for a tool without template under a global
\* value, and for an empty or whitespace-only command, the rewriter returns
\* the command unchanged and does not raise.
C9_NoFlagsLeavesCommandUnchanged ==
    (/\ mode = "rewrite" /\ pc # "call" /\ Enabled
     /\ \/ toLowerCase(LastSegment(FirstToken(command))) \notin KnownTools
        \/ /\ config.maxRequestsPerSecond # None
           /\ config.toolLimits = None
           /\ toLowerCase(LastSegment(FirstToken(command)))
                \notin {Nmap, Masscan, Ffuf, Nuclei, Hydra, Httpx, Sqlmap}
        \/ Tokens(command) = <<>>)
        => result = Returned(command)

\* The throttle flag of each scanner the scan command rewrites.
C10_ThrottleFlag(t) ==
    CASE t = Nmap -> <<"-", "-", "m", "a", "x", "-", "r", "a", "t", "e", " ">>
      [] t = Nuclei -> <<"-", "r", "l", " ">>
      [] t = Ffuf -> <<"-", "r", "a", "t", "e", " ">>

\* C10: with --rate-limit, each printed nmap, nuclei and ffuf command
\* contains that tool's throttle flag, for every target.
C10_ScanCommandsThrottled ==
    (mode = "scan" /\ pc = "done" /\ opts.rateLimit)
        => \A i \in 1..Len(printed) :
                printed[i].tool \in {Nmap, Nuclei, Ffuf}
                    => includes(printed[i].cmd, C10_ThrottleFlag(printed[i].tool))

-----------------------------------------------------------------------------
(* Properties of parseNmapXml *)

\* parseNmapXml has been applied to the report.
NmapParsed == mode = "nmap" /\ pc # "start"

\* A host of the report is well formed when it has an address and its closing
\* delimiter; a port when its protocol is tcp or udp and it has its closing
\* delimiter.
WellFormedHost(h) == h.closed /\ h.address # None
WellFormedPort(p) == p.closed /\ p.protocol \in {<<"t", "c", "p">>, <<"u", "d", "p">>}

\* The protocol and number of a port of the report, and of a PortRecord.
Written(p) == <<p.protocol, p.number>>
Recorded(r) == <<r.protocol, r.port>>

\* C11: failures are local: parseNmapXml does not raise, and its result is
\* one HostRecord for every well-formed host of the report, in order, each
\* with the address of that host and exactly its well-formed ports; malformed
\* or partial hosts and ports are left out and change nothing else.
C11_FailuresAreLocal ==
    NmapParsed =>
        LET good == SelectSeq(doc, WellFormedHost)
        IN  /\ ~parsed.threw
            /\ Len(parsed.value) = Len(good)
            /\ \A k \in 1..Len(good) :
                LET ports == SelectSeq(good[k].ports, WellFormedPort)
                IN  /\ parsed.value[k].address = good[k].address[1]
                    /\ [j \in 1..Len(parsed.value[k].ports) |->
                            Recorded(parsed.value[k].ports[j])]
                       = [j \in 1..Len(ports) |-> Written(ports[j])]

\* The delimited host fragments of a report: each runs from a host's opening
\* to the nearest closing delimiter after it, so hosts without a closing
\* delimiter lie in the fragment that the next closed host ends, and hosts
\* after the last closing delimiter lie in none.
RECURSIVE HostFragments(_)
HostFragments(d) ==
    LET closedAt == {i \in 1..Len(d) : d[i].closed}
    IN  IF closedAt = {} THEN <<>>
        ELSE LET i == Minimum(closedAt)
             IN  <<SubSeq(d, 1, i)>> \o HostFragments(SubSeq(d, i + 1, Len(d)))

\* The addresses written in a fragment, and the ports written in it.
FragmentAddresses(f) ==
    Concat([i \in 1..Len(f) |-> IF f[i].address = None THEN <<>> ELSE <<f[i].address[1]>>])
FragmentPorts(f) == Concat([i \in 1..Len(f) |-> f[i].ports])

\* The delimited port fragments among ports: each runs from the opening of a
\* tcp or udp port to the nearest closing delimiter after it; named by the
\* port that opens it.
RECURSIVE PortFragments(_)
PortFragments(ports) ==
    LET openers == {i \in 1..Len(ports) : ports[i].protocol \in {<<"t", "c", "p">>, <<"u", "d", "p">>}}
        closers(i) == {k \in i..Len(ports) : ports[k].closed}
    IN  IF openers = {} \/ closers(Minimum(openers)) = {} THEN <<>>
        ELSE <<ports[Minimum(openers)]>>
             \o PortFragments(SubSeq(ports, Minimum(closers(Minimum(openers))) + 1,
                                     Len(ports)))

\* C12: parseNmapXml returns one HostRecord per host fragment that has an
\* address, in input order, with the fragment's ports in input order; host
\* fragments without an address are skipped, and a report without host
\* fragments gives the empty sequence.
C12_OneRecordPerAddressedFragment ==
    NmapParsed =>
        LET addressed == SelectSeq(HostFragments(doc), LAMBDA f : FragmentAddresses(f) # <<>>)
        IN  /\ ~parsed.threw
            /\ Len(parsed.value) = Len(addressed)
            /\ \A k \in 1..Len(addressed) :
                LET ports == PortFragments(FragmentPorts(addressed[k]))
                IN  /\ parsed.value[k].address = FragmentAddresses(addressed[k])[1]
                    /\ [j \in 1..Len(parsed.value[k].ports) |->
                            Recorded(parsed.value[k].ports[j])]
                       = [j \in 1..Len(ports) |-> Written(ports[j])]

\* A two-host report whose first host has no address gave the second host's
\* record alone, with both of its ports.
C12_Witness ==
    /\ NmapParsed
    /\ Len(doc) = 2
    /\ doc[1].address = None
    /\ Len(parsed.value) = 1
    /\ parsed.value[1].address = doc[2].address[1]
    /\ Len(parsed.value[1].ports) = 2

\* C13: every PortRecord has a port number from 1 to 65535.
C13_PortNumberInRange ==
    NmapParsed =>
        \A k \in 1..Len(parsed.value) : \A j \in 1..Len(parsed.value[k].ports) :
            parsed.value[k].ports[j].port \in 1..65535

\* Every host and port of the report is well formed, so that record k is
\* host k and its port record j is port j.
AllWellFormed ==
    \A i \in 1..Len(doc) :
        /\ WellFormedHost(doc[i])
        /\ \A j \in 1..Len(doc[i].ports) : WellFormedPort(doc[i].ports[j])

\* C14: in every record the port state is open, closed or filtered, the
\* protocol tcp or udp and the liveness up or down; an absent or unrecognized
\* state is recorded as filtered, an absent or unrecognized liveness as down.
C14_EnumeratedValues ==
    NmapParsed =>
        /\ \A k \in 1..Len(parsed.value) :
            /\ parsed.value[k].status \in {<<"u", "p">>, <<"d", "o", "w", "n">>}
            /\ \A j \in 1..Len(parsed.value[k].ports) :
                /\ parsed.value[k].ports[j].state \in {<<"o", "p", "e", "n">>, <<"c", "l", "o", "s", "e", "d">>, <<"f", "i", "l", "t", "e", "r", "e", "d">>}
                /\ parsed.value[k].ports[j].protocol \in {<<"t", "c", "p">>, <<"u", "d", "p">>}
        /\ AllWellFormed =>
            /\ Len(parsed.value) = Len(doc)
            /\ \A i \in 1..Len(doc) :
                /\ parsed.value[i].status =
                      (IF doc[i].status \in {Some(<<"u", "p">>), Some(<<"d", "o", "w", "n">>)}
                       THEN doc[i].status[1] ELSE <<"d", "o", "w", "n">>)
                /\ Len(parsed.value[i].ports) = Len(doc[i].ports)
                /\ \A j \in 1..Len(doc[i].ports) :
                    parsed.value[i].ports[j].state =
                      (IF doc[i].ports[j].state
                            \in {Some(<<"o", "p", "e", "n">>), Some(<<"c", "l", "o", "s", "e", "d">>), Some(<<"f", "i", "l", "t", "e", "r", "e", "d">>)}
                       THEN doc[i].ports[j].state[1] ELSE <<"f", "i", "l", "t", "e", "r", "e", "d">>)

\* A port whose state is written as open|filtered was recorded as filtered.
C14_Witness ==
    /\ NmapParsed
    /\ AllWellFormed
    /\ \E i \in 1..Len(doc) : \E j \in 1..Len(doc[i].ports) :
        /\ doc[i].ports[j].state = Some(<<"o", "p", "e", "n", "|", "f", "i", "l", "t", "e", "r", "e", "d">>)
        /\ parsed.value[i].ports[j].state = <<"f", "i", "l", "t", "e", "r", "e", "d">>

-----------------------------------------------------------------------------
(* Properties of parseNucleiJson and formatNucleiReport *)

\* parseNucleiJson has been applied to the stream.
NucleiParsed == mode = "nuclei" /\ pc # "start"

\* C15: for a stream in which malformed and blank lines are interleaved with
\* valid ones, parseNucleiJson does not raise and returns one record per line
\* that decodes, in order, at most as many as there are lines; every line
\* gives the records it gives when it is parsed alone.
C15_OneRecordPerValidLine ==
    NucleiParsed =>
        /\ ~parsed.threw
        /\ Len(parsed.value) = Cardinality({k \in 1..Len(doc) : doc[k].decodes})
        /\ Len(parsed.value) <= Len(doc)
        /\ \E now \in Clock :
            parsed.value =
                Concat([k \in 1..Len(doc) |-> parseNucleiJson(doc[k].text, now).value])

Severities == { <<"i", "n", "f", "o">>, <<"l", "o", "w">>, <<"m", "e", "d", "i", "u", "m">>, <<"h", "i", "g", "h">>, <<"c", "r", "i", "t", "i", "c", "a", "l">> }

\* C16: every FindingRecord has a severity that is one of info, low, medium,
\* high, critical.
C16_SeverityEnumerated ==
    NucleiParsed =>
        \A k \in 1..Len(parsed.value) :
            /\ parsed.value[k].severity.type = "string"
            /\ parsed.value[k].severity.str \in Severities

\* The lines of the report, and the counts the summary line of a bucket may
\* be read as.
ReportLines == split(report.value, "\n")
SummaryCounts(b) ==
    {n \in 0..Len(parsed.value) :
        ReportLines[3 + b] = <<"-", " ">> \o SeverityTitle[b] \o <<":", " ">> \o NumberToString(n)}

\* C17: the report of the parsed records has the five summary counts
\* (Critical, High, Medium, Low, Info), also for empty buckets; they sum to
\* the number of records, and the records whose severity is none of
\* critical, high, medium and low are counted under Info.
C17_CountsSumToRecords ==
    (mode = "nuclei" /\ pc = "done") =>
        /\ ~report.threw
        /\ Len(ReportLines) >= 8
        /\ \A b \in 1..5 : SummaryCounts(b) # {}
        /\ LET count(b) == CHOOSE n \in SummaryCounts(b) : TRUE
           IN  /\ count(1) + count(2) + count(3) + count(4) + count(5) = Len(parsed.value)
               /\ count(5) =
                    Cardinality({k \in 1..Len(parsed.value) :
                        toLowerCase(parsed.value[k].severity.str)
                            \notin { <<"c", "r", "i", "t", "i", "c", "a", "l">>, <<"h", "i", "g", "h">>, <<"m", "e", "d", "i", "u", "m">>, <<"l", "o", "w">> }})

\* C18: formatting what a parser returned never raises: each of
\* formatNucleiReport, formatNmapSummary and formatFfufTable returns a string.
C18_FormattingNeverRaises ==
    (mode \in {"nmap", "nuclei", "ffuf"} /\ pc = "done") => ~report.threw

-----------------------------------------------------------------------------
(* Properties of parseFfufJson *)

\* parseFfufJson has been applied to the document.
FfufParsed == mode = "ffuf" /\ pc # "start"

\* C19: parseFfufJson returns the empty sequence, without raising, for a text
\* that is no JSON document, for the document null and for a document
\* without a results member.
C19_EmptyForUnusableDocument ==
    (FfufParsed /\ doc.kind \in {"undecodable", "null", "noResults"})
        => parsed = Returned(<<>>)

\* Texts of the three kinds have been parsed.
C19_Witness ==
    /\ FfufParsed
    /\ doc.kind = "undecodable"
    /\ doc.text # <<>>
    /\ parsed = Returned(<<>>)

\* C20: for a document whose results is an array of n elements,
\* parseFfufJson returns n results in input order, each with the url, status,
\* length, words and lines of its element ('' and 0 for those it lacks),
\* whatever the elements are, null included.
C20_OneResultPerElement ==
    (FfufParsed /\ doc.kind = "results") =>
        /\ ~parsed.threw
        /\ Len(parsed.value) = Len(doc.elements)
        /\ \A k \in 1..Len(doc.elements) :
            /\ parsed.value[k].url = doc.elements[k].url
            /\ parsed.value[k].status = Num(doc.elements[k].status)
            /\ parsed.value[k].length = Num(doc.elements[k].length)
            /\ parsed.value[k].words = Num(doc.elements[k].words)
            /\ parsed.value[k].lines = Num(doc.elements[k].lines)

-----------------------------------------------------------------------------
(* The guide's table and example, the hydra cap, and the two default tables *)

\* Rate limiting enabled, no global value, no per-tool override.
DefaultsOnly(cfg) ==
    /\ cfg.present
    /\ cfg.enabled
    /\ cfg.maxRequestsPerSecond = None
    /\ cfg.toolLimits \in {None, Some(EmptyObject)}

\* C22: with rate limiting enabled and no overrides, every tool of the
\* guide's table resolves to the flag the table lists for it.
C22_GuideTableResolved ==
    (mode = "resolve" /\ pc = "returned" /\ DefaultsOnly(config)
        /\ tool \in DOMAIN GuideToolLimits)
    => flags = Str(GuideToolLimits[tool])

\* C23: rewriting the guide's example command under the production policy
\* gives the command the guide shows, with the flag after `-sV`.
C23_GuideExampleRewritten ==
    (mode = "rewrite" /\ pc # "call" /\ command = GuideCommand
        /\ config = createProductionRateLimitConfig(None))
    => result = Returned(GuideRewritten)

\* C27: for hydra under a global value N the resolved flag is `-t min(N, 16)`:
\* N itself up to 16, and 16 above.
C27_HydraThreadsCapped ==
    (mode = "resolve" /\ pc = "returned" /\ tool = Hydra /\ config.present
        /\ config.enabled /\ config.maxRequestsPerSecond # None
        /\ ~Truthy(ToolLimit(config, Hydra)))
    => LET n == config.maxRequestsPerSecond[1]
       IN  flags = Str(<<"-", "t", " ">> \o NumberToString(IF n <= 16 THEN n ELSE 16))

\* Hydra was resolved under a global value above the cap.
C27_Witness ==
    /\ mode = "resolve" /\ pc = "returned" /\ tool = Hydra
    /\ config.present /\ config.enabled
    /\ config.maxRequestsPerSecond = Some(17)
    /\ ~Truthy(ToolLimit(config, Hydra))
    /\ flags = Str(<<"-", "t", " ", "1", "6">>)

\* C29: resolving one of the five tools with a built-in flag string under
\* its DEFAULT_RATE_LIMITS value as the global value gives exactly its
\* SECURITY_RATE_LIMITS string.
C29_DefaultTablesAgree ==
    (mode = "resolve" /\ pc = "returned" /\ tool \in DOMAIN SECURITY_RATE_LIMITS
        /\ config.present /\ config.enabled
        /\ config.maxRequestsPerSecond = Some(DEFAULT_RATE_LIMITS[tool])
        /\ ~Truthy(ToolLimit(config, tool)))
    => flags = Str(SECURITY_RATE_LIMITS[tool])

\* Nmap was resolved under its DEFAULT_RATE_LIMITS value, 100.
C29_Witness ==
    /\ mode = "resolve" /\ pc = "returned" /\ tool = Nmap
    /\ config = RateLimitConfig(TRUE, Some(100), None)
    /\ flags = Str(<<"-", "-", "m", "a", "x", "-", "r", "a", "t", "e", " ", "1", "0", "0">>)

-----------------------------------------------------------------------------
(* The scan command: phases, and what comes before the audit entry *)

\* The phases whose commands were printed: nmap belongs to recon, nuclei to
\* web, testssl.sh to vuln.
PhasesShown ==
    {ph \in {"recon", "web", "vuln"} :
        \E i \in 1..Len(printed) :
            printed[i].tool = (CASE ph = "recon" -> Nmap
                                 [] ph = "web" -> Nuclei
                                 [] ph = "vuln" -> <<"t", "e", "s", "t", "s", "s", "l", ".", "s", "h">>)}

\* The phases asked for on the command line.
PhasesSelected ==
    {ph \in {"recon", "web", "vuln"} :
        \/ ph = "recon" /\ opts.recon
        \/ ph = "web" /\ opts.web
        \/ ph = "vuln" /\ opts.vuln}

\* C24: the phase list is never empty: all three phases with --full or with
\* no phase option, otherwise exactly the one or two phases selected.
C24_PhasesChosen ==
    (mode = "scan" /\ pc = "done")
    => /\ PhasesShown # {}
       /\ PhasesShown = IF opts.full \/ PhasesSelected = {}
                        THEN {"recon", "web", "vuln"}
                        ELSE PhasesSelected

\* A scan with --recon and --web alone printed the commands of those two.
C24_Witness ==
    /\ mode = "scan" /\ pc = "done"
    /\ opts.recon /\ opts.web /\ ~opts.vuln /\ ~opts.full
    /\ PhasesShown = {"recon", "web"}

\* C26: the audit entry and the scanner commands are produced only by the
\* step that follows a confirmed or skipped disclaimer and a passed scope
\* check; a run that ends by process.exit has code 1, no audit entry and
\* no command printed.
C26_AuditOnlyAfterAuthorization ==
    [][ /\ (auditLog' # auditLog \/ printed' # printed)
            => (pc = "authorized" /\ isTargetInScope(target, None)
                    /\ pc' = "done" /\ exitCode' = None)
        /\ pc' = "authorized" => (pc = "start" /\ auditLog' = <<>> /\ printed' = <<>>)
        /\ (pc' = "exited" \/ exitCode' # None)
            => (exitCode' = Some(1) /\ auditLog' = <<>> /\ printed' = <<>>) ]_vars

\* A run asked for confirmation, got it, and printed its commands.
C26_Witness ==
    /\ mode = "scan" /\ pc = "done" /\ opts.disclaimer
    /\ Len(auditLog) = 1 /\ printed # <<>> /\ exitCode = None

-----------------------------------------------------------------------------
(* The scope check *)

\* s occurs in t as a contiguous run of characters.
OccursIn(s, t) ==
    \E k \in 0..(Len(t) - Len(s)) : \A j \in 1..Len(s) : t[k + j] = s[j]

\* The target matches a pattern: one contains the other.
MatchesPattern(tgt, pattern) == OccursIn(pattern, tgt) \/ OccursIn(tgt, pattern)

MatchesSome(tgt, patterns) ==
    \E i \in 1..Len(patterns) : MatchesPattern(tgt, patterns[i])

\* The configured lists; a list that is not configured has no pattern.
OutOfScopeList == IF scopeConfig[1].outOfScope = None THEN <<>> ELSE scopeConfig[1].outOfScope[1]
InScopeList == IF scopeConfig[1].scope = None THEN <<>> ELSE scopeConfig[1].scope[1]

\* C25: a target matching an out-of-scope pattern is refused even when it
\* matches an in-scope pattern; without a configured target scope every
\* target is accepted; with a non-empty in-scope list a target is accepted
\* only if it matches an in-scope pattern and no out-of-scope pattern.
C25_OutOfScopeWins ==
    (mode = "scope" /\ pc = "returned")
    => IF scopeConfig = None THEN allowed = Some(TRUE)
       ELSE /\ MatchesSome(target, OutOfScopeList) => allowed = Some(FALSE)
            /\ InScopeList # <<>>
                => (allowed = Some(TRUE)
                        => (MatchesSome(target, InScopeList)
                                /\ ~MatchesSome(target, OutOfScopeList)))

\* A target matching both an in-scope and an out-of-scope pattern was refused.
C25_Witness ==
    /\ mode = "scope" /\ pc = "returned" /\ scopeConfig # None
    /\ MatchesSome(target, InScopeList)
    /\ MatchesSome(target, OutOfScopeList)
    /\ allowed = Some(FALSE)

-----------------------------------------------------------------------------
(* buildRateLimitedCommand, and its agreement with injectRateLimits *)

\* Space-separated tokens of a command by position: a token starts at the
\* front and after every space, and runs up to the next space or the end.
SpaceTokenStarts(cmd) == {1} \cup {k + 1 : k \in {i \in 1..Len(cmd) : cmd[i] = " "}}
SpaceTokenEnd(cmd, s) ==
    LET spaces == {k \in s..Len(cmd) : cmd[k] = " "}
    IN  IF spaces = {} THEN Len(cmd) ELSE (CHOOSE k \in spaces : \A m \in spaces : k <= m) - 1
SpaceToken(cmd, s) == SubSeq(cmd, s, SpaceTokenEnd(cmd, s))

\* The token is the tool name, or a path ending in "/" and the tool name.
NamesTool(token, t) ==
    \/ token = t
    \/ \E n \in 0..Len(token) : token = SubSeq(token, 1, n) \o <<"/">> \o t

\* The command with the flags put right behind its first token naming the
\* tool, or at its end when no token names the tool.
WithFlagsAfterTool(cmd, t, fl) ==
    LET hits == {s \in SpaceTokenStarts(cmd) : NamesTool(SpaceToken(cmd, s), t)}
    IN  IF hits = {} THEN cmd \o <<" ">> \o fl
        ELSE LET first == CHOOSE s \in hits : \A m \in hits : s <= m
                 e == SpaceTokenEnd(cmd, first)
             IN  SubSeq(cmd, 1, e) \o <<" ">> \o fl \o SubSeq(cmd, e + 1, Len(cmd))

RateLimitOn(cfg) == cfg.present /\ cfg.rateLimit = Some(TRUE)

\* C28: buildRateLimitedCommand returns the base command when rateLimit is
\* not true or the tool has no default flags; otherwise the base command
\* with the tool's default flags right after the first token naming the
\* tool, or at the end when no token names it.
C28_FlagsAfterToolToken ==
    (mode = "build" /\ pc # "call")
    => IF ~RateLimitOn(config) \/ tool \notin DOMAIN SECURITY_RATE_LIMITS
       THEN built = Returned(command)
       ELSE built = Returned(WithFlagsAfterTool(command, tool, SECURITY_RATE_LIMITS[tool]))

\* The flags were put behind a path-qualified tool token that is not the
\* first token of the command.
C28_Witness ==
    /\ mode = "build" /\ pc = "built" /\ tool = Nmap
    /\ command = <<"-", "s", "V", " ", "/", "u", "s", "r", "/", "b", "i", "n", "/", "n", "m", "a", "p", " ", "t">>
    /\ RateLimitOn(config)
    /\ built = Returned(<<"-", "s", "V", " ", "/", "u", "s", "r", "/", "b", "i", "n", "/", "n", "m", "a", "p", " ", "-", "-", "m", "a", "x", "-", "r", "a", "t", "e", " ", "1", "0", "0", " ", "t">>)

\* A plain command for a tool: tokens without whitespace separated by
\* single spaces, the first of them the tool name.
PlainCommandFor(cmd, t) ==
    /\ \A s \in SpaceTokenStarts(cmd) : SpaceToken(cmd, s) # <<>>
    /\ \A i \in 1..Len(cmd) : IsWhitespace(cmd[i]) => cmd[i] = " "
    /\ SpaceToken(cmd, 1) = t

\* C30: on a plain command for one of the five default tools without a
\* throttle indicator, buildRateLimitedCommand with {rateLimit: true} and
\* injectRateLimits with the production policy return the same command;
\* with rate limiting off both return the command unchanged.
C30_RewritersAgree ==
    (mode = "build" /\ pc = "both")
    => /\ (tool \in DOMAIN SECURITY_RATE_LIMITS /\ PlainCommandFor(command, tool)
            /\ ~HasThrottleIndicator(command)
            /\ config = SecurityScanConfig(Some(TRUE), None))
           => built = result
       /\ ~RateLimitOn(config)
           => (built = Returned(command) /\ result = Returned(command))

\* Both rewriters put hydra's flags behind the tool name.
C30_Witness ==
    /\ mode = "build" /\ pc = "both" /\ tool = Hydra
    /\ command = <<"h", "y", "d", "r", "a", " ", "-", "s", "V", " ", "t">>
    /\ config = SecurityScanConfig(Some(TRUE), None)
    /\ built = Returned(<<"h", "y", "d", "r", "a", " ", "-", "t", " ", "4", " ", "-", "s", "V", " ", "t">>)
    /\ result = built

-----------------------------------------------------------------------------
(* Parsing twice *)

\* C21: parsing is a function of the text alone: a second call of a parser
\* on the same text returns the records of the first call, equal in every
\* field, the timestamp included.
C21_ParsingIsPure ==
    (mode \in {"nmap", "nuclei", "ffuf"} /\ pc = "reparsed") => reparsed = parsed

====
